---- MODULE Spec2Model ----
(***************************************************************************)
(* GtkPopover (gtk/gtkpopover.c): the transition state machine, the        *)
(* modality side effects of showing and hiding, and the side resolution of *)
(* gtk_popover_update_position().                                          *)
(*                                                                         *)
(* The C functions are operators from a world record (all objects the      *)
(* function can touch) to the world after the call; the actions apply one  *)
(* entry point each and store the result in the variables.                 *)
(***************************************************************************)
EXTENDS Integers, FiniteSets, Sequences, TLC

(* ----------------------------- bounds --------------------------------- *)
\* number of steps the progress tracker's [0, 1] interval is divided into
TrackerSteps == 2
\* largest frame-time delta of one tick, in tracker steps
MaxDelta == 2
\* most tick callbacks registered at once before the model stops adding
MaxTicks == 2
\* most window observer pairs connected at once before the model stops adding
MaxObservers == 2
\* anchor rectangle origin ranges over 0 .. MaxCoord
MaxCoord == 2
\* required popover size ranges over 1 .. MaxReq
MaxReq == 2
\* the popover of the arrow specification is up to MaxSlack longer than the
\* shortest edge that holds the arrow between the rounded corners
MaxSlack == 4
\* the block count of a signal handler is counted up to MaxBlocks
MaxBlocks == 3

(* ------------------------ program constants --------------------------- *)
TAIL_GAP_WIDTH == 24
TAIL_HEIGHT == 12
TRANSITION_DIFF == 20
G_MAXINT == 2147483647

STATE_SHOWING == "SHOWING"
STATE_SHOWN == "SHOWN"
STATE_HIDING == "HIDING"
STATE_HIDDEN == "HIDDEN"

GTK_POS_LEFT == 0
GTK_POS_RIGHT == 1
GTK_POS_TOP == 2
GTK_POS_BOTTOM == 3

GTK_POPOVER_CONSTRAINT_NONE == "NONE"
GTK_POPOVER_CONSTRAINT_WINDOW == "WINDOW"
\* a GtkPopoverConstraint value that is neither of the two enumerators
ConstraintOutOfRange == "OUT_OF_RANGE"
\* a GtkPositionType value past the last enumerator
PositionOutOfRange == GTK_POS_BOTTOM + 1

\* widget pointers: null, the popover or a widget inside it, a widget of
\* the window outside the popover
NULL == "NULL"
PopoverWidget == "popover"
OtherWidget == "other"
\* a widget inside a second popover whose anchor is inside the popover, and
\* that second popover
ChainedWidget == "chained"
ChainedPopover == "chained_popover"
\* a widget inside a third popover whose anchor is outside the popover, and
\* that third popover
StrayWidget == "stray"
StrayPopover == "stray_popover"
\* widgets a popover can be attached to: two inside the window and one
\* that is in no window
AnchorA == "anchor_a"
AnchorB == "anchor_b"
AnchorLoose == "anchor_loose"
AnchorSet == {AnchorA, AnchorB, AnchorLoose}
\* widgets that can be a window's default widget: the one the window has
\* before the popover is shown, one inside the popover, another one of the
\* window
WindowDefault == "window_default"
PopoverDefault == "popover_default"
OtherDefault == "other_default"

GTK_TEXT_DIR_LTR == "LTR"
GTK_TEXT_DIR_RTL == "RTL"

GTK_PROGRESS_STATE_DURING == "DURING"
GTK_PROGRESS_STATE_AFTER == "AFTER"

G_SOURCE_REMOVE == FALSE
G_SOURCE_CONTINUE == TRUE

\* side length of the containing window's allocation
WindowSize == MaxCoord + 1

VARIABLES
  priv,      \* GtkPopoverPrivate
  widget,    \* the GtkWidget instance state of the popover
  toplevel,  \* the containing GtkWindow, as far as the popover uses it
  clock,     \* the tick callbacks the popover has registered
  env,       \* settings, text direction, backend and the geometry inputs
  obs        \* what an observer of the popover has seen (signals, requests)

vars == <<priv, widget, toplevel, clock, env, obs>>

World ==
  [priv |-> priv, widget |-> widget, toplevel |-> toplevel,
   clock |-> clock, env |-> env, obs |-> obs]

Min(a, b) == IF a < b THEN a ELSE b
Max(a, b) == IF a > b THEN a ELSE b

\* sequencing of the statements of a C function: the value of v is computed
\* once and handed to the rest F of the function
Then(v, F(_)) == CHOOSE r \in {F(x) : x \in {v}} : TRUE

\* the CLAMP macro
CLAMP(x, low, high) == IF x > high THEN high ELSE IF x < low THEN low ELSE x

\* a failed g_return_if_fail: the violation is logged and the function
\* returns
g_return_if_fail_warning(w) == [w EXCEPT !.obs.critical = TRUE]

(* ----------------------- GtkProgressTracker --------------------------- *)
\* iteration counts tracker steps; TrackerSteps is iteration_count 1.0
gtk_progress_tracker_start(tracker) ==
  [iteration |-> 0, is_running |-> TRUE]

gtk_progress_tracker_finish(tracker) ==
  [tracker EXCEPT !.is_running = FALSE]

gtk_progress_tracker_advance_frame(tracker, delta) ==
  IF ~tracker.is_running THEN tracker
  ELSE [tracker EXCEPT !.iteration = Min(@ + delta, TrackerSteps)]

gtk_progress_tracker_get_state(tracker) ==
  IF ~tracker.is_running \/ tracker.iteration >= TrackerSteps
  THEN GTK_PROGRESS_STATE_AFTER
  ELSE GTK_PROGRESS_STATE_DURING

gtk_progress_tracker_get_iteration(tracker) ==
  IF tracker.is_running THEN tracker.iteration ELSE TrackerSteps

\* denominator of the eased progress: t = EaseNum / EaseDen
EaseDen == TrackerSteps * TrackerSteps * TrackerSteps

\* cubic ease-out (x - 1)^3 + 1 of x = iteration / TrackerSteps, as the
\* numerator over EaseDen
gtk_progress_tracker_get_ease_out_cubic(tracker) ==
  LET r == TrackerSteps - gtk_progress_tracker_get_iteration(tracker)
  IN  EaseDen - r * r * r

(* --------------------------- geometry --------------------------------- *)
POS_IS_VERTICAL(p) == p = GTK_POS_TOP \/ p = GTK_POS_BOTTOM

get_effective_position(w, pos) ==
  IF w.env.direction = GTK_TEXT_DIR_RTL
  THEN IF pos = GTK_POS_LEFT THEN GTK_POS_RIGHT
       ELSE IF pos = GTK_POS_RIGHT THEN GTK_POS_LEFT
       ELSE pos
  ELSE pos

opposite_position(pos) ==
  CASE pos = GTK_POS_RIGHT -> GTK_POS_LEFT
    [] pos = GTK_POS_TOP -> GTK_POS_BOTTOM
    [] pos = GTK_POS_BOTTOM -> GTK_POS_TOP
    [] OTHER -> GTK_POS_RIGHT

\* the rectangle and the return value; without an explicit rectangle the
\* rectangle is the anchor widget's own allocation
gtk_popover_get_pointing_to(w) ==
  [rect |-> IF w.priv.has_pointing_to
            THEN w.priv.pointing_to
            ELSE [x |-> 0, y |-> 0,
                  width |-> w.env.geom.width, height |-> w.env.geom.height],
   ret |-> w.priv.has_pointing_to]

\* the pointing rectangle translated from the anchor widget's coordinates to
\* the window's (env.geom.x, env.geom.y is the anchor's origin in the window)
PointingRect(w) ==
  LET rect == gtk_popover_get_pointing_to(w).rect
  IN  [rect EXCEPT !.x = @ + w.env.geom.x, !.y = @ + w.env.geom.y]

\* (mutant) the animation offset is added to the rectangle before the
\* overshoots are computed
Overshoot_after_offset(w) ==
  LET g == w.env.geom
      rect == [PointingRect(w) EXCEPT !.x = @ + w.priv.transition_diff,
                                      !.y = @ + w.priv.transition_diff]
  IN  [p \in GTK_POS_LEFT .. GTK_POS_BOTTOM |->
        CASE p = GTK_POS_TOP -> g.req_height - rect.y + g.shadow.top
          [] p = GTK_POS_BOTTOM ->
               rect.y + rect.height + g.req_height - g.win_height
                 + g.shadow.bottom
          [] p = GTK_POS_LEFT -> g.req_width - rect.x + g.shadow.left
          [] OTHER ->
               rect.x + rect.width + g.req_width - g.win_width
                 + g.shadow.right]

\* overshoot[] of gtk_popover_update_position
Overshoot(w) ==
  LET g == w.env.geom
      rect == PointingRect(w)
  IN  [p \in GTK_POS_LEFT .. GTK_POS_BOTTOM |->
        CASE p = GTK_POS_TOP -> g.req_height - rect.y + g.shadow.top
          [] p = GTK_POS_BOTTOM ->
               rect.y + rect.height + g.req_height - g.win_height
                 + g.shadow.bottom
          [] p = GTK_POS_LEFT -> g.req_width - rect.x + g.shadow.left
          [] OTHER ->
               rect.x + rect.width + g.req_width - g.win_width
                 + g.shadow.right]

\* (mutant) the loop keeps the last smallest overshoot instead of the first
BestSideStep_last_minimum(w, acc, i) ==
  LET j == get_effective_position(w, i)
  IN  IF Overshoot(w)[j] <= acc.best
      THEN [pos |-> i, best |-> Overshoot(w)[j]]
      ELSE acc

\* one iteration of the for loop that looks for the smallest overshoot
BestSideStep(w, acc, i) ==
  LET j == get_effective_position(w, i)
  IN  IF Overshoot(w)[j] < acc.best
      THEN [pos |-> i, best |-> Overshoot(w)[j]]
      ELSE acc

BestSide(w) ==
  LET a0 == [pos |-> 0, best |-> G_MAXINT]
      a1 == BestSideStep(w, a0, 0)
      a2 == BestSideStep(w, a1, 1)
      a3 == BestSideStep(w, a2, 2)
      a4 == BestSideStep(w, a3, 3)
  IN  a4.pos

\* (mutant) an overshoot of exactly 0 counts as not fitting
ResolveSide_strict_fit(w) ==
  LET pos == get_effective_position(w, w.priv.preferred_position)
  IN  IF w.env.wayland /\ w.priv.constraint = GTK_POPOVER_CONSTRAINT_NONE
      THEN w.priv.preferred_position
      ELSE IF Overshoot(w)[pos] < 0
      THEN w.priv.preferred_position
      ELSE IF Overshoot(w)[opposite_position(pos)] < 0
      THEN opposite_position(w.priv.preferred_position)
      ELSE BestSide(w)

\* (mutant) the flip returns the opposite of the effective side instead of
\* the opposite of the preferred side
ResolveSide_flip_effective(w) ==
  LET pos == get_effective_position(w, w.priv.preferred_position)
  IN  IF w.env.wayland /\ w.priv.constraint = GTK_POPOVER_CONSTRAINT_NONE
      THEN w.priv.preferred_position
      ELSE IF Overshoot(w)[pos] <= 0
      THEN w.priv.preferred_position
      ELSE IF Overshoot(w)[opposite_position(pos)] <= 0
      THEN opposite_position(pos)
      ELSE BestSide(w)

\* (mutant) constraint NONE keeps the preferred side on every backend
ResolveSide_none_everywhere(w) ==
  LET pos == get_effective_position(w, w.priv.preferred_position)
  IN  IF w.priv.constraint = GTK_POPOVER_CONSTRAINT_NONE
      THEN w.priv.preferred_position
      ELSE IF Overshoot(w)[pos] <= 0
      THEN w.priv.preferred_position
      ELSE IF Overshoot(w)[opposite_position(pos)] <= 0
      THEN opposite_position(w.priv.preferred_position)
      ELSE BestSide(w)

\* the side resolution of gtk_popover_update_position
ResolveSide(w) ==
  LET pos == get_effective_position(w, w.priv.preferred_position)
  IN  IF w.env.wayland /\ w.priv.constraint = GTK_POPOVER_CONSTRAINT_NONE
      THEN w.priv.preferred_position
      ELSE IF Overshoot(w)[pos] <= 0
      THEN w.priv.preferred_position
      ELSE IF Overshoot(w)[opposite_position(pos)] <= 0
      THEN opposite_position(w.priv.preferred_position)
      ELSE BestSide(w)

\* (mutant) the offset moves the rectangle along both axes
OffsetRect_both_axes(w, final) ==
  LET g == PointingRect(w)
      d == w.priv.transition_diff
  IN  [x |-> CASE final = GTK_POS_RIGHT -> g.x - d
               [] OTHER -> g.x + d,
       y |-> CASE final = GTK_POS_BOTTOM -> g.y - d
               [] OTHER -> g.y + d,
       width |-> g.width, height |-> g.height]

\* the rectangle handed to _gtk_window_set_popover_position: the pointing
\* rectangle moved by transition_diff along the axis of the resolved side
OffsetRect(w, final) ==
  LET g == PointingRect(w)
      d == w.priv.transition_diff
  IN  [x |-> CASE final = GTK_POS_LEFT -> g.x + d
               [] final = GTK_POS_RIGHT -> g.x - d
               [] OTHER -> g.x,
       y |-> CASE final = GTK_POS_TOP -> g.y + d
               [] final = GTK_POS_BOTTOM -> g.y - d
               [] OTHER -> g.y,
       width |-> g.width, height |-> g.height]

gtk_widget_is_drawable(w) == w.widget.visible /\ w.widget.mapped

\* what the frame clock's observer sees of one dispatch: the calls made
\* while a tick callback runs, in the order they are made
Note(w, what) ==
  IF w.clock.dispatching = 0 THEN w
  ELSE [w EXCEPT !.obs.steps = Append(@, what)]

\* gtk_widget_queue_allocate on the containing window
gtk_widget_queue_allocate(w) == Note(w, "queue_allocate")

\* the shape of the popover's window is recomputed from the border path
gtk_popover_update_shape(w) ==
  IF w.env.wayland THEN w
  ELSE Note([w EXCEPT !.obs.shape_updated = TRUE], "shape")

\* (mutant) the shape is recomputed without asking whether the popover is
\* drawable
gtk_popover_update_position_shapes_undrawn(w) ==
  IF ~w.priv.window THEN w
  ELSE Then(ResolveSide(w), LAMBDA final :
       Then(Note([w EXCEPT !.priv.final_position = final,
                           !.toplevel.popover_pos = final,
                           !.toplevel.popover_rect = OffsetRect(w, final)],
                 "position"),
            LAMBDA w1 :
       IF final # w1.priv.current_position
       THEN Then(gtk_popover_update_shape(w1), LAMBDA w2 :
            [w2 EXCEPT !.priv.current_position = final])
       ELSE w1))

\* (mutant) the rendered side is not recorded
gtk_popover_update_position_forgets_side(w) ==
  IF ~w.priv.window THEN w
  ELSE Then(ResolveSide(w), LAMBDA final :
       Then(Note([w EXCEPT !.priv.final_position = final,
                           !.toplevel.popover_pos = final,
                           !.toplevel.popover_rect = OffsetRect(w, final)],
                 "position"),
            LAMBDA w1 :
       IF final # w1.priv.current_position
       THEN IF gtk_widget_is_drawable(w1)
            THEN gtk_popover_update_shape(w1)
            ELSE w1
       ELSE w1))

gtk_popover_update_position(w) ==
  IF ~w.priv.window THEN w
  ELSE Then(ResolveSide(w), LAMBDA final :
       Then(Note([w EXCEPT !.priv.final_position = final,
                           !.toplevel.popover_pos = final,
                           !.toplevel.popover_rect = OffsetRect(w, final)],
                 "position"),
            LAMBDA w1 :
       IF final # w1.priv.current_position
       THEN Then(IF gtk_widget_is_drawable(w1)
                 THEN gtk_popover_update_shape(w1)
                 ELSE w1, LAMBDA w2 :
            [w2 EXCEPT !.priv.current_position = final])
       ELSE w1))

\* the rectangle the window allocates to the popover from the position and
\* the rectangle handed to it
popover_get_rect(w) ==
  LET g == w.env.geom
      r == w.toplevel.popover_rect
      pos == w.toplevel.popover_pos
  IN  IF pos = GTK_POS_LEFT \/ pos = GTK_POS_RIGHT
      THEN [x |-> IF (pos = GTK_POS_LEFT)
                       = (w.env.direction = GTK_TEXT_DIR_LTR)
                  THEN r.x - g.req_width
                  ELSE r.x + r.width,
            y |-> CLAMP(r.y + (r.height \div 2) - (g.req_height \div 2),
                        0, g.win_height - g.req_height),
            width |-> g.req_width, height |-> g.req_height]
      ELSE [x |-> CLAMP(r.x + (r.width \div 2) - (g.req_width \div 2),
                        0, g.win_width - g.req_width),
            y |-> IF pos = GTK_POS_TOP
                  THEN r.y - g.req_height
                  ELSE r.y + r.height,
            width |-> g.req_width, height |-> g.req_height]

\* (mutant) the end of the gap is clamped into the range of its start
gtk_popover_get_gap_coords_end_as_start(w) ==
  LET alloc == popover_get_rect(w)
      win == PointingRect(w)
      rect == [win EXCEPT !.x = @ - alloc.x, !.y = @ - alloc.y]
      popover_width == alloc.width
      popover_height == alloc.height
      border == w.env.style.border
      border_radius == w.env.style.border_radius
      pos == get_effective_position(w, w.priv.final_position)
      base == IF pos = GTK_POS_BOTTOM \/ pos = GTK_POS_RIGHT
              THEN TAIL_HEIGHT + border
              ELSE IF pos = GTK_POS_TOP
              THEN popover_height - border - TAIL_HEIGHT
              ELSE popover_width - border - TAIL_HEIGHT
      tip == IF pos = GTK_POS_BOTTOM \/ pos = GTK_POS_RIGHT
             THEN 0
             ELSE base + TAIL_HEIGHT
  IN  IF POS_IS_VERTICAL(pos)
      THEN LET tip_pos == rect.x + (rect.width \div 2)
           IN  [initial_x |-> CLAMP(tip_pos - (TAIL_GAP_WIDTH \div 2),
                                    border_radius,
                                    popover_width - TAIL_GAP_WIDTH
                                      - border_radius),
                initial_y |-> base,
                tip_x |-> CLAMP(tip_pos, 0, popover_width),
                tip_y |-> tip,
                final_x |-> CLAMP(tip_pos + (TAIL_GAP_WIDTH \div 2),
                                  border_radius,
                                  popover_width - border_radius),
                final_y |-> base]
      ELSE LET tip_pos == rect.y + (rect.height \div 2)
           IN  [initial_x |-> base,
                initial_y |-> CLAMP(tip_pos - (TAIL_GAP_WIDTH \div 2),
                                    border_radius,
                                    popover_height - TAIL_GAP_WIDTH
                                      - border_radius),
                tip_x |-> tip,
                tip_y |-> CLAMP(tip_pos, 0, popover_height),
                final_x |-> base,
                final_y |-> CLAMP(tip_pos + (TAIL_GAP_WIDTH \div 2),
                                  border_radius,
                                  popover_height - border_radius)]

\* the coordinates of the arrow: base start, tip and base end, in the
\* popover's coordinates
gtk_popover_get_gap_coords(w) ==
  LET alloc == popover_get_rect(w)
      win == PointingRect(w)
      rect == [win EXCEPT !.x = @ - alloc.x, !.y = @ - alloc.y]
      popover_width == alloc.width
      popover_height == alloc.height
      border == w.env.style.border
      border_radius == w.env.style.border_radius
      pos == get_effective_position(w, w.priv.final_position)
      base == IF pos = GTK_POS_BOTTOM \/ pos = GTK_POS_RIGHT
              THEN TAIL_HEIGHT + border
              ELSE IF pos = GTK_POS_TOP
              THEN popover_height - border - TAIL_HEIGHT
              ELSE popover_width - border - TAIL_HEIGHT
      tip == IF pos = GTK_POS_BOTTOM \/ pos = GTK_POS_RIGHT
             THEN 0
             ELSE base + TAIL_HEIGHT
  IN  IF POS_IS_VERTICAL(pos)
      THEN LET tip_pos == rect.x + (rect.width \div 2)
           IN  [initial_x |-> CLAMP(tip_pos - (TAIL_GAP_WIDTH \div 2),
                                    border_radius,
                                    popover_width - TAIL_GAP_WIDTH
                                      - border_radius),
                initial_y |-> base,
                tip_x |-> CLAMP(tip_pos, 0, popover_width),
                tip_y |-> tip,
                final_x |-> CLAMP(tip_pos + (TAIL_GAP_WIDTH \div 2),
                                  border_radius + TAIL_GAP_WIDTH,
                                  popover_width - border_radius),
                final_y |-> base]
      ELSE LET tip_pos == rect.y + (rect.height \div 2)
           IN  [initial_x |-> base,
                initial_y |-> CLAMP(tip_pos - (TAIL_GAP_WIDTH \div 2),
                                    border_radius,
                                    popover_height - TAIL_GAP_WIDTH
                                      - border_radius),
                tip_x |-> tip,
                tip_y |-> CLAMP(tip_pos, 0, popover_height),
                final_x |-> base,
                final_y |-> CLAMP(tip_pos + (TAIL_GAP_WIDTH \div 2),
                                  border_radius + TAIL_GAP_WIDTH,
                                  popover_height - border_radius)]

(* ------------------------------ measuring ----------------------------- *)
GTK_ORIENTATION_HORIZONTAL == "horizontal"
GTK_ORIENTATION_VERTICAL == "vertical"

get_border_radius(w) == w.env.style.border_radius

get_minimal_size(w, orientation) ==
  LET pos == get_effective_position(w, w.priv.preferred_position)
  IN  IF \/ orientation = GTK_ORIENTATION_HORIZONTAL /\ POS_IS_VERTICAL(pos)
         \/ orientation = GTK_ORIENTATION_VERTICAL /\ ~POS_IS_VERTICAL(pos)
      THEN 2 * get_border_radius(w) + TAIL_GAP_WIDTH
      ELSE 2 * get_border_radius(w)

\* child is the empty sequence for a popover without a child, else it holds
\* the minimum and natural size measured for the contents
gtk_popover_measure(w, orientation, child) ==
  LET measured == IF child # <<>>
                  THEN child[1]
                  ELSE [minimum |-> 0, natural |-> 0]
      minimal_size == get_minimal_size(w, orientation)
  IN  [minimum |-> Max(measured.minimum, minimal_size) + TAIL_HEIGHT,
       natural |-> Max(measured.natural, minimal_size) + TAIL_HEIGHT]

(* ------------------- GtkWidget services the popover uses -------------- *)

gtk_widget_set_opacity(w, opacity) == [w EXCEPT !.widget.opacity = opacity]

gtk_grab_add(w) == [w EXCEPT !.widget.has_grab = TRUE]

\* GObject counts the blocks of a signal handler: the handler runs only
\* while the count is 0. The count of the anchor's "grab-notify" handler is
\* followed when the observer watches it.
g_signal_handler_block(w) ==
  IF ~w.obs.handler_watched THEN w
  ELSE [w EXCEPT !.obs.block_count = Min(@ + 1, MaxBlocks)]

\* unblocking a handler that is not blocked is refused with a warning
g_signal_handler_unblock(w) ==
  IF ~w.obs.handler_watched THEN w
  ELSE [w EXCEPT !.obs.block_count = Max(@ - 1, 0)]

gtk_grab_remove(w) == [w EXCEPT !.widget.has_grab = FALSE]

\* the id gtk_widget_add_tick_callback returns: ids are never reused while
\* a callback with that id is registered or being dispatched
NewTickId(w) ==
  CHOOSE i \in 1 .. (MaxTicks + 2) :
    /\ i \notin (w.clock.tick_callbacks \cup {w.clock.dispatching})
    /\ \A j \in 1 .. (i - 1) :
         j \in (w.clock.tick_callbacks \cup {w.clock.dispatching})

gtk_widget_remove_tick_callback(w, id) ==
  [w EXCEPT !.clock.tick_callbacks = @ \ {id}]

transitions_enabled(w) == w.env.enable_animations

(* ------------------------------ focus --------------------------------- *)
\* a GtkWidget * that matters to the popover is NULL, PopoverWidget (the
\* popover or a widget inside it) or OtherWidget (a widget of the window
\* outside the popover)
gtk_window_get_focus(w) == w.toplevel.focus

\* toplevel.peer is a second popover of the same window, anchored to a
\* widget inside the popover.  The popover calls a widget inside the peer
\* ChainedWidget; the peer calls itself PopoverWidget and a widget inside
\* the popover StrayWidget, because the popover's anchor is outside the
\* peer.  PeerName translates a widget between the two.
PeerName(view, target) ==
  CASE view = "chained" /\ target = PopoverWidget -> StrayWidget
    [] view = "chained" /\ target = ChainedWidget -> PopoverWidget
    [] view = "parent" /\ target = PopoverWidget -> ChainedWidget
    [] view = "parent" /\ target = StrayWidget -> PopoverWidget
    [] OTHER -> target

\* the world with the two popovers exchanged, so that the functions of
\* this file run on the peer.  peer.older: both popovers observe the
\* window and the peer's handlers were connected first
AsPeer(w) ==
  [priv |-> [w.toplevel.peer.priv EXCEPT
               !.prev_focus_widget = PeerName(w.toplevel.peer.view, @)],
   widget |-> w.toplevel.peer.widget,
   clock |-> w.toplevel.peer.clock,
   env |-> w.env,
   obs |-> w.toplevel.peer.obs,
   toplevel |->
     [w.toplevel EXCEPT
        !.focus = PeerName(w.toplevel.peer.view, @),
        !.observers = w.toplevel.peer.observers,
        !.registered = w.toplevel.peer.registered,
        !.popover_pos = w.toplevel.peer.popover_pos,
        !.popover_rect = w.toplevel.peer.popover_rect,
        !.peer =
           [present |-> w.toplevel.peer.present,
            view |-> IF w.toplevel.peer.view = "chained"
                     THEN "parent" ELSE "chained",
            older |-> /\ w.toplevel.peer.observers > 0
                      /\ w.toplevel.observers > 0
                      /\ ~w.toplevel.peer.older,
            priv |-> [w.priv EXCEPT
                        !.prev_focus_widget =
                           PeerName(w.toplevel.peer.view, @)],
            widget |-> w.widget,
            clock |-> w.clock,
            obs |-> w.obs,
            observers |-> w.toplevel.observers,
            registered |-> w.toplevel.registered,
            popover_pos |-> w.toplevel.popover_pos,
            popover_rect |-> w.toplevel.popover_rect]]]

RECURSIVE emit_set_focus(_, _, _)

\* gtk_window_set_focus: the window emits "set-focus" when its focus
\* widget changes.  The popover's own observers return at once for each
\* change the popover makes itself (the focus is then none or inside it,
\* or they are already disconnected); the peer's observers run
gtk_window_set_focus(w, target) ==
  IF w.toplevel.focus = target THEN w
  ELSE IF target = NULL \/ w.toplevel.peer.observers = 0
  THEN [w EXCEPT !.toplevel.focus = target]
  ELSE Then(AsPeer([w EXCEPT !.toplevel.focus = target]), LAMBDA p :
       AsPeer(emit_set_focus(p, p.toplevel.focus, p.toplevel.observers)))

\* gtk_window_set_focus (window, NULL)
gtk_window_unset_focus(w) == [w EXCEPT !.toplevel.focus = NULL]

\* gtk_widget_grab_focus on the popover runs gtk_popover_grab_focus, which
\* focuses the first child of a popover whose visible flag is set
gtk_popover_grab_focus(w) ==
  IF ~w.priv.visible THEN w
  ELSE gtk_window_set_focus(w, PopoverWidget)

\* gtk_widget_grab_focus on a widget outside the popover, or on the window
gtk_widget_grab_focus(w, target) == gtk_window_set_focus(w, target)

\* whether the saved focus widget can be drawn: a widget of the popover
\* is drawable with the popover, the widget outside it while it is mapped
prev_focus_is_drawable(w) ==
  IF w.priv.prev_focus_widget = PopoverWidget
  THEN gtk_widget_is_drawable(w)
  ELSE IF w.priv.prev_focus_widget = OtherWidget
  THEN w.toplevel.other_mapped
  ELSE IF w.toplevel.peer.present
  THEN w.priv.prev_focus_widget # NULL /\ w.toplevel.peer.widget.mapped
  ELSE w.priv.prev_focus_widget # NULL

popover_unset_prev_focus(w) ==
  IF w.priv.prev_focus_widget = NULL THEN w
  ELSE [w EXCEPT !.priv.prev_focus_widget = NULL]

prev_focus_unmap_cb(w) == popover_unset_prev_focus(w)

(* ------------------------- modality ----------------------------------- *)
\* (mutant) releasing modality always gives the focus to the window
gtk_popover_apply_modality_forgets_focus(w, modal) ==
  IF ~w.priv.window THEN w
  ELSE IF modal
  THEN Then(Note([w EXCEPT !.priv.prev_focus_widget =
                              gtk_window_get_focus(w)], "modality"),
            LAMBDA w1 :
       Then(gtk_grab_add(w1), LAMBDA w2 :
       Then(gtk_window_unset_focus(w2), LAMBDA w3 :
       Then(gtk_popover_grab_focus(w3), LAMBDA w4 :
       [w4 EXCEPT !.toplevel.observers = @ + 1,
                  !.toplevel.peer.older =
                     IF w4.toplevel.observers = 0
                     THEN w4.toplevel.peer.observers > 0
                     ELSE @]))))
  ELSE Then(Note([w EXCEPT !.toplevel.observers = 0,
                           !.toplevel.peer.older = FALSE,
                           !.obs.release =
                              <<[saved |-> w.priv.prev_focus_widget,
                                 drawable |-> prev_focus_is_drawable(w)]>>],
                 "modality"), LAMBDA w1 :
       Then(gtk_grab_remove(w1), LAMBDA w2 :
       Then(gtk_widget_grab_focus(w2, NULL), LAMBDA w3 :
       popover_unset_prev_focus(w3))))

\* toplevel.observers counts the connections of the handler pair
\* (window_active_changed, window_set_focus) to the window
gtk_popover_apply_modality(w, modal) ==
  IF ~w.priv.window THEN w
  ELSE IF modal
  THEN Then(Note([w EXCEPT !.priv.prev_focus_widget =
                              gtk_window_get_focus(w)], "modality"),
            LAMBDA w1 :
       Then(gtk_grab_add(w1), LAMBDA w2 :
       Then(gtk_window_unset_focus(w2), LAMBDA w3 :
       Then(gtk_popover_grab_focus(w3), LAMBDA w4 :
       [w4 EXCEPT !.toplevel.observers = @ + 1,
                  !.toplevel.peer.older =
                     IF w4.toplevel.observers = 0
                     THEN w4.toplevel.peer.observers > 0
                     ELSE @]))))
  ELSE Then(Note([w EXCEPT !.toplevel.observers = 0,
                           !.toplevel.peer.older = FALSE,
                           !.obs.release =
                              <<[saved |-> w.priv.prev_focus_widget,
                                 drawable |-> prev_focus_is_drawable(w)]>>],
                 "modality"), LAMBDA w1 :
       Then(gtk_grab_remove(w1), LAMBDA w2 :
       Then(IF w2.priv.prev_focus_widget # NULL
               /\ prev_focus_is_drawable(w2)
            THEN gtk_widget_grab_focus(w2, w2.priv.prev_focus_widget)
            ELSE gtk_widget_grab_focus(w2, NULL), LAMBDA w3 :
       popover_unset_prev_focus(w3))))

\* (mutant) losing the activation also drops the saved focus widget
window_active_changed_drops_saved_focus(w) ==
  IF ~w.priv.modal \/ ~gtk_widget_is_drawable(w) THEN w
  ELSE IF w.toplevel.is_active
  THEN Then(gtk_grab_add(w), LAMBDA w1 :
       Then(IF gtk_window_get_focus(w1) # PopoverWidget
            THEN gtk_popover_grab_focus(w1)
            ELSE w1, LAMBDA w2 :
       [w2 EXCEPT !.priv.grab_notify_blocked = FALSE]))
  ELSE Then(gtk_grab_remove(w), LAMBDA w1 :
       Then(popover_unset_prev_focus(w1), LAMBDA w2 :
       [w2 EXCEPT !.priv.grab_notify_blocked = TRUE]))

\* the "notify::is-active" observer
window_active_changed(w) ==
  IF ~w.priv.modal \/ ~gtk_widget_is_drawable(w) THEN w
  ELSE IF w.toplevel.is_active
  THEN Then(gtk_grab_add(w), LAMBDA w1 :
       Then(IF gtk_window_get_focus(w1) # PopoverWidget
            THEN gtk_popover_grab_focus(w1)
            ELSE w1, LAMBDA w2 :
       Then(IF w2.priv.grab_notify_blocked
            THEN g_signal_handler_unblock(w2)
            ELSE w2, LAMBDA w3 :
       [w3 EXCEPT !.priv.grab_notify_blocked = FALSE])))
  ELSE Then(g_signal_handler_block(w), LAMBDA w0 :
       Then(gtk_grab_remove(w0), LAMBDA w1 :
       [w1 EXCEPT !.priv.grab_notify_blocked = TRUE]))

\* (mutant) the visible flag is left set, so a later hide runs the side
\* effects again
gtk_popover_hide_internal_keeps_flag(w) ==
  IF ~w.priv.visible THEN w
  ELSE Then([w EXCEPT !.obs.closed = Min(@ + 1, 2)], LAMBDA w1 :
       Then(IF w1.priv.modal
            THEN gtk_popover_apply_modality(w1, FALSE)
            ELSE w1, LAMBDA w2 :
       IF w2.widget.realized
       THEN [w2 EXCEPT !.widget.input_shape = "empty"]
       ELSE w2))

gtk_popover_hide_internal(w) ==
  IF ~w.priv.visible THEN w
  ELSE Then([w EXCEPT !.priv.visible = FALSE,
                      !.obs.closed = Min(@ + 1, 2)], LAMBDA w1 :
       Then(IF w1.priv.modal
            THEN gtk_popover_apply_modality(w1, FALSE)
            ELSE w1, LAMBDA w2 :
       IF w2.widget.realized
       THEN [w2 EXCEPT !.widget.input_shape = "empty"]
       ELSE w2))

(* ------------------------ transitions --------------------------------- *)
gtk_popover_stop_transition(w) ==
  IF w.priv.tick_id # 0
  THEN [w EXCEPT !.clock.tick_callbacks = @ \ {w.priv.tick_id},
                 !.priv.tick_id = 0]
  ELSE w

\* (mutant) the tick callback is not registered with the frame clock
gtk_popover_start_transition_no_callback(w) ==
  IF w.priv.tick_id # 0 THEN w
  ELSE [w EXCEPT
         !.priv.first_frame_skipped = FALSE,
         !.priv.tracker = gtk_progress_tracker_start(@),
         !.priv.tick_id = NewTickId(w)]

gtk_popover_start_transition(w) ==
  IF w.priv.tick_id # 0 THEN w
  ELSE [w EXCEPT
         !.priv.first_frame_skipped = FALSE,
         !.priv.tracker = gtk_progress_tracker_start(@),
         !.priv.tick_id = NewTickId(w),
         !.clock.tick_callbacks = @ \cup {NewTickId(w)}]

gtk_window_get_default_widget(w) == w.toplevel.default_widget

gtk_window_set_default(w, default_widget) ==
  [w EXCEPT !.toplevel.default_widget = default_widget]

gtk_popover_map(w) ==
  Then([w EXCEPT !.priv.prev_default = gtk_window_get_default_widget(w),
                 !.widget.mapped = TRUE], LAMBDA w1 :
  Then(gtk_popover_update_position(w1), LAMBDA w2 :
  gtk_window_set_default(w2, w2.priv.default_widget)))

gtk_popover_unmap(w) ==
  Then([w EXCEPT !.widget.mapped = FALSE], LAMBDA w1 :
  Then(IF gtk_window_get_default_widget(w1) = w1.priv.default_widget
       THEN gtk_window_set_default(w1, w1.priv.prev_default)
       ELSE w1, LAMBDA w2 :
  [w2 EXCEPT !.priv.prev_default = NULL]))

\* gtk_widget_map: a widget is realized before it is mapped
gtk_widget_map(w) ==
  Then([w EXCEPT !.widget.realized = TRUE], LAMBDA w1 :
  gtk_popover_map(w1))

\* GtkWidget's default show handler: sets the visible flag and maps the
\* widget when its parent (the window) is mapped
gtk_widget_real_show(w) ==
  Then([w EXCEPT !.widget.visible = TRUE], LAMBDA w1 :
  IF w1.priv.window /\ ~w1.widget.mapped
  THEN gtk_widget_map(w1)
  ELSE w1)

\* GtkWidget's default hide handler
gtk_widget_real_hide(w) ==
  Then([w EXCEPT !.widget.visible = FALSE], LAMBDA w1 :
  IF w1.widget.mapped THEN gtk_popover_unmap(w1) ELSE w1)

gtk_popover_show(w) ==
  Then([w EXCEPT !.priv.visible = TRUE], LAMBDA w1 :
  Then(gtk_widget_real_show(w1), LAMBDA w2 :
  Then(IF w2.priv.modal
       THEN gtk_popover_apply_modality(w2, TRUE)
       ELSE w2, LAMBDA w3 :
  Then([w3 EXCEPT !.priv.state = STATE_SHOWN], LAMBDA w4 :
  IF w4.widget.realized
  THEN [w4 EXCEPT !.widget.input_shape = "none"]
  ELSE w4))))

gtk_popover_hide(w) ==
  Then(gtk_popover_hide_internal(Note(w, "hide")), LAMBDA w1 :
  Then(gtk_popover_stop_transition(w1), LAMBDA w2 :
  Then([w2 EXCEPT !.priv.state = STATE_HIDDEN,
                  !.priv.transition_diff = 0,
                  !.priv.tracker = gtk_progress_tracker_finish(@)],
       LAMBDA w3 :
  Then(gtk_widget_set_opacity(w3, EaseDen), LAMBDA w4 :
  gtk_widget_real_hide(w4)))))

\* gtk_widget_show emits "show" only on a widget that is not visible
gtk_widget_show(w) ==
  IF w.widget.visible THEN w ELSE gtk_popover_show(w)

\* gtk_widget_hide emits "hide" only on a widget that is visible
gtk_widget_hide(w) ==
  IF w.widget.visible THEN gtk_popover_hide(w) ELSE w

gtk_widget_set_visible(w, visible) ==
  IF visible THEN gtk_widget_show(w) ELSE gtk_widget_hide(w)

gtk_popover_set_state(w, requested) ==
  Then(IF ~transitions_enabled(w) \/ ~w.widget.realized
       THEN IF requested = STATE_SHOWING THEN STATE_SHOWN
            ELSE IF requested = STATE_HIDING THEN STATE_HIDDEN
            ELSE requested
       ELSE requested, LAMBDA state :
  Then(Note([w EXCEPT !.priv.state = state], "set_state"), LAMBDA w1 :
  IF state = STATE_SHOWING \/ state = STATE_HIDING
  THEN gtk_popover_start_transition(w1)
  ELSE Then(gtk_popover_stop_transition(w1), LAMBDA w2 :
       gtk_widget_set_visible(w2, state = STATE_SHOWN))))

\* (mutant) the opacity falls with the progress while SHOWING
show_animate_cb_fades_while_showing(w, delta) ==
  Then(IF w.priv.first_frame_skipped
       THEN [w EXCEPT !.priv.tracker =
                         gtk_progress_tracker_advance_frame(@, delta)]
       ELSE [w EXCEPT !.priv.first_frame_skipped = TRUE], LAMBDA w1 :
  Then(gtk_progress_tracker_get_ease_out_cubic(w1.priv.tracker), LAMBDA t :
  Then(IF w1.priv.state = STATE_SHOWING
       THEN [w1 EXCEPT !.priv.transition_diff =
                          (TRANSITION_DIFF * (EaseDen - t)) \div EaseDen,
                       !.widget.opacity = EaseDen - t]
       ELSE IF w1.priv.state = STATE_HIDING
       THEN [w1 EXCEPT !.priv.transition_diff =
                          0 - ((TRANSITION_DIFF * t) \div EaseDen),
                       !.widget.opacity = EaseDen - t]
       ELSE w1, LAMBDA w2 :
  Then(gtk_popover_update_position(w2), LAMBDA w2a :
  Then(gtk_widget_queue_allocate(w2a), LAMBDA w3 :
  IF gtk_progress_tracker_get_state(w3.priv.tracker)
       = GTK_PROGRESS_STATE_AFTER
  THEN Then(IF w3.priv.state = STATE_SHOWING
            THEN Then(gtk_popover_set_state(w3, STATE_SHOWN), LAMBDA w5 :
                 IF ~w5.priv.visible
                 THEN gtk_popover_set_state(w5, STATE_HIDING)
                 ELSE w5)
            ELSE gtk_widget_hide(w3), LAMBDA w4 :
       [w |-> [w4 EXCEPT !.priv.tick_id = 0], ret |-> G_SOURCE_REMOVE])
  ELSE [w |-> w3, ret |-> G_SOURCE_CONTINUE])))))

\* (mutant) the end of the transition is handled before the position is
\* updated and the allocation queued
show_animate_cb_state_first(w, delta) ==
  Then(IF w.priv.first_frame_skipped
       THEN [w EXCEPT !.priv.tracker =
                         gtk_progress_tracker_advance_frame(@, delta)]
       ELSE [w EXCEPT !.priv.first_frame_skipped = TRUE], LAMBDA w1 :
  Then(gtk_progress_tracker_get_ease_out_cubic(w1.priv.tracker), LAMBDA t :
  Then(IF w1.priv.state = STATE_SHOWING
       THEN [w1 EXCEPT !.priv.transition_diff =
                          (TRANSITION_DIFF * (EaseDen - t)) \div EaseDen,
                       !.widget.opacity = t]
       ELSE IF w1.priv.state = STATE_HIDING
       THEN [w1 EXCEPT !.priv.transition_diff =
                          0 - ((TRANSITION_DIFF * t) \div EaseDen),
                       !.widget.opacity = EaseDen - t]
       ELSE w1, LAMBDA w3 :
  IF gtk_progress_tracker_get_state(w3.priv.tracker)
       = GTK_PROGRESS_STATE_AFTER
  THEN Then(IF w3.priv.state = STATE_SHOWING
            THEN Then(gtk_popover_set_state(w3, STATE_SHOWN), LAMBDA w5 :
                 IF ~w5.priv.visible
                 THEN gtk_popover_set_state(w5, STATE_HIDING)
                 ELSE w5)
            ELSE gtk_widget_hide(w3), LAMBDA w4 :
       Then(gtk_popover_update_position(w4), LAMBDA w4a :
       Then(gtk_widget_queue_allocate(w4a), LAMBDA w4b :
       [w |-> [w4b EXCEPT !.priv.tick_id = 0], ret |-> G_SOURCE_REMOVE])))
  ELSE Then(gtk_popover_update_position(w3), LAMBDA w3a :
       Then(gtk_widget_queue_allocate(w3a), LAMBDA w3b :
       [w |-> w3b, ret |-> G_SOURCE_CONTINUE])))))

\* the tick callback; delta is the frame time elapsed since the last
\* frame.  The result is the world after the call and the return value.
show_animate_cb(w, delta) ==
  Then(IF w.priv.first_frame_skipped
       THEN [w EXCEPT !.priv.tracker =
                         gtk_progress_tracker_advance_frame(@, delta)]
       ELSE [w EXCEPT !.priv.first_frame_skipped = TRUE], LAMBDA w1 :
  Then(gtk_progress_tracker_get_ease_out_cubic(w1.priv.tracker), LAMBDA t :
  Then(IF w1.priv.state = STATE_SHOWING
       THEN [w1 EXCEPT !.priv.transition_diff =
                          (TRANSITION_DIFF * (EaseDen - t)) \div EaseDen,
                       !.widget.opacity = t]
       ELSE IF w1.priv.state = STATE_HIDING
       THEN [w1 EXCEPT !.priv.transition_diff =
                          0 - ((TRANSITION_DIFF * t) \div EaseDen),
                       !.widget.opacity = EaseDen - t]
       ELSE w1, LAMBDA w2 :
  Then(gtk_popover_update_position(w2), LAMBDA w2a :
  Then(gtk_widget_queue_allocate(w2a), LAMBDA w3 :
  IF gtk_progress_tracker_get_state(w3.priv.tracker)
       = GTK_PROGRESS_STATE_AFTER
  THEN Then(IF w3.priv.state = STATE_SHOWING
            THEN Then(gtk_popover_set_state(w3, STATE_SHOWN), LAMBDA w5 :
                 IF ~w5.priv.visible
                 THEN gtk_popover_set_state(w5, STATE_HIDING)
                 ELSE w5)
            ELSE gtk_widget_hide(w3), LAMBDA w4 :
       [w |-> [w4 EXCEPT !.priv.tick_id = 0], ret |-> G_SOURCE_REMOVE])
  ELSE [w |-> w3, ret |-> G_SOURCE_CONTINUE])))))

\* one dispatch of the callback registered under id by the frame clock: a
\* callback that returns G_SOURCE_REMOVE is unregistered
DispatchTick(w, id, delta) ==
  Then(show_animate_cb([w EXCEPT !.clock.dispatching = id], delta),
       LAMBDA r :
  Then(IF r.ret = G_SOURCE_REMOVE
       THEN gtk_widget_remove_tick_callback(r.w, id)
       ELSE r.w, LAMBDA w1 :
  [w1 EXCEPT !.clock.dispatching = 0]))

(* ---------------------- requests and events --------------------------- *)
\* (mutant) the request is not ignored in SHOWING and SHOWN
gtk_popover_popup_always_shows(w) ==
  Then(gtk_widget_show(w), LAMBDA w1 :
  IF transitions_enabled(w1)
  THEN gtk_popover_set_state(w1, STATE_SHOWING)
  ELSE w1)

gtk_popover_popup(w) ==
  IF w.priv.state = STATE_SHOWING \/ w.priv.state = STATE_SHOWN THEN w
  ELSE Then(gtk_widget_show(w), LAMBDA w1 :
       IF transitions_enabled(w1)
       THEN gtk_popover_set_state(w1, STATE_SHOWING)
       ELSE w1)

gtk_popover_popdown(w) ==
  IF w.priv.state = STATE_HIDING \/ w.priv.state = STATE_HIDDEN THEN w
  ELSE Then(IF ~transitions_enabled(w)
            THEN gtk_widget_hide(w)
            ELSE gtk_popover_set_state(w, STATE_HIDING), LAMBDA w1 :
       gtk_popover_hide_internal(w1))

_gtk_popover_parent_unmap(w) ==
  IF w.priv.state = STATE_SHOWING
  THEN [w EXCEPT !.priv.visible = FALSE]
  ELSE IF w.priv.state = STATE_SHOWN
  THEN gtk_popover_set_state(w, STATE_HIDING)
  ELSE w

\* gtk_widget_get_ancestor (widget, GTK_TYPE_POPOVER): the widget itself
\* or the nearest ancestor that is a popover
gtk_widget_get_ancestor_popover(target) ==
  CASE target = PopoverWidget -> PopoverWidget
    [] target = ChainedWidget \/ target = ChainedPopover -> ChainedPopover
    [] target = StrayWidget \/ target = StrayPopover -> StrayPopover
    [] OTHER -> NULL

\* gtk_popover_get_relative_to on one of the other popovers
gtk_popover_get_relative_to(popover) ==
  CASE popover = ChainedPopover -> PopoverWidget
    [] popover = StrayPopover -> OtherWidget
    [] OTHER -> NULL

\* the while loop of window_set_focus, started at a popover or NULL: TRUE
\* when the walk up the anchors reaches the popover
RECURSIVE FocusWalk(_)
FocusWalk(target) ==
  IF target = NULL THEN FALSE
  ELSE IF target = PopoverWidget THEN TRUE
  ELSE IF gtk_popover_get_relative_to(target) = NULL THEN FALSE
  ELSE FocusWalk(gtk_widget_get_ancestor_popover(
                   gtk_popover_get_relative_to(target)))

\* (mutant) only the popover that holds the focus widget is looked at
window_set_focus_no_chain(w, focus) ==
  IF ~w.priv.modal \/ focus = NULL \/ ~gtk_widget_is_drawable(w) THEN w
  ELSE IF gtk_widget_get_ancestor_popover(focus) = PopoverWidget THEN w
  ELSE Then(popover_unset_prev_focus(w), LAMBDA w1 :
       gtk_widget_hide(w1))

\* the "set-focus" observer; focus is the window's new focus widget
window_set_focus(w, focus) ==
  IF ~w.priv.modal \/ focus = NULL \/ ~gtk_widget_is_drawable(w) THEN w
  ELSE IF FocusWalk(gtk_widget_get_ancestor_popover(focus)) THEN w
  ELSE Then(popover_unset_prev_focus(w), LAMBDA w1 :
       gtk_widget_hide(w1))

\* the window emits "set-focus": every connected observer runs, and an
\* observer disconnected during the emission does not run
emit_set_focus(w, focus, n) ==
  IF n = 0 \/ w.toplevel.observers = 0 THEN w
  ELSE Then(window_set_focus(w, focus), LAMBDA w1 :
       emit_set_focus(w1, focus, n - 1))

\* the window emits "notify::is-active"
RECURSIVE emit_notify_is_active(_, _)
emit_notify_is_active(w, n) ==
  IF n = 0 \/ w.toplevel.observers = 0 THEN w
  ELSE Then(window_active_changed(w), LAMBDA w1 :
       emit_notify_is_active(w1, n - 1))

\* the emission of a signal of the window to the observers of both
\* popovers, in the order in which they were connected
emit_set_focus_all(w, focus) ==
  IF w.toplevel.peer.observers = 0
  THEN emit_set_focus(w, focus, w.toplevel.observers)
  ELSE IF w.toplevel.peer.older
  THEN Then(AsPeer(w), LAMBDA p :
       Then(AsPeer(emit_set_focus(p, PeerName(w.toplevel.peer.view, focus),
                                  p.toplevel.observers)), LAMBDA w1 :
       emit_set_focus(w1, focus, w1.toplevel.observers)))
  ELSE Then(emit_set_focus(w, focus, w.toplevel.observers), LAMBDA w1 :
       IF w1.toplevel.peer.observers = 0 THEN w1
       ELSE Then(AsPeer(w1), LAMBDA p :
            AsPeer(emit_set_focus(p, PeerName(w.toplevel.peer.view, focus),
                                  p.toplevel.observers))))

emit_notify_is_active_all(w) ==
  IF w.toplevel.peer.observers = 0
  THEN emit_notify_is_active(w, w.toplevel.observers)
  ELSE IF w.toplevel.peer.older
  THEN Then(AsPeer(w), LAMBDA p :
       Then(AsPeer(emit_notify_is_active(p, p.toplevel.observers)),
            LAMBDA w1 :
       emit_notify_is_active(w1, w1.toplevel.observers)))
  ELSE Then(emit_notify_is_active(w, w.toplevel.observers), LAMBDA w1 :
       IF w1.toplevel.peer.observers = 0 THEN w1
       ELSE Then(AsPeer(w1), LAMBDA p :
            AsPeer(emit_notify_is_active(p, p.toplevel.observers))))

gtk_popover_set_modal(w, modal) ==
  IF w.priv.modal = modal THEN w
  ELSE Then([w EXCEPT !.priv.modal = modal], LAMBDA w1 :
       IF w1.widget.visible
       THEN gtk_popover_apply_modality(w1, w1.priv.modal)
       ELSE w1)

\* gtk_widget_unrealize on the popover: a mapped widget is unmapped first;
\* its tick callbacks stay registered but the frame clock no longer
\* dispatches them
gtk_widget_unrealize(w) ==
  IF ~w.widget.realized THEN w
  ELSE Then(IF w.widget.mapped THEN gtk_popover_unmap(w) ELSE w,
            LAMBDA w1 :
       [w1 EXCEPT !.widget.realized = FALSE])

gtk_popover_set_default_widget(w, default_widget) ==
  IF w.priv.default_widget = default_widget THEN w
  ELSE Then([w EXCEPT !.priv.default_widget = default_widget], LAMBDA w1 :
       IF w1.widget.mapped
       THEN gtk_window_set_default(w1, w1.priv.default_widget)
       ELSE w1)

\* _gtk_window_remove_popover: the window forgets the popover and unparents
\* it, which unrealizes it
gtk_window_remove_popover(w) ==
  Then(gtk_widget_unrealize(w), LAMBDA w1 :
  [w1 EXCEPT !.toplevel.registered = FALSE])

\* _gtk_window_add_popover: the window takes the popover as a child
gtk_window_add_popover(w) == [w EXCEPT !.toplevel.registered = TRUE]

\* gtk_widget_get_ancestor (widget, GTK_TYPE_WINDOW) as a flag
gtk_widget_get_ancestor_window(anchor) == anchor \in {AnchorA, AnchorB}

widget_manage_popover(w, anchor) ==
  [w EXCEPT !.env.anchors.popovers[anchor] = TRUE,
            !.env.anchors.managed[anchor] = TRUE]

RECURSIVE gtk_popover_update_relative_to(_, _)

\* the hash table's key destroy function
_unmanage_popover(w) == gtk_popover_update_relative_to(w, NULL)

\* env.popovers: the anchor has a table of popovers; env.managed: the
\* popover is in it.  g_hash_table_remove takes the key out of the table
\* and then runs the key destroy function
widget_unmanage_popover(w, anchor) ==
  IF ~w.env.anchors.popovers[anchor] THEN w
  ELSE IF ~w.env.anchors.managed[anchor] THEN w
  ELSE Then([w EXCEPT !.env.anchors.managed[anchor] = FALSE], LAMBDA w1 :
       _unmanage_popover(w1))

\* (mutant) the popover stays in the collection of the anchor it leaves
gtk_popover_update_relative_to_keeps_old(w, relative_to) ==
  IF w.priv.widget = relative_to THEN w
  ELSE Then(IF w.priv.window
            THEN [gtk_window_remove_popover(w) EXCEPT !.priv.window = FALSE]
            ELSE w, LAMBDA w1 :
       Then(popover_unset_prev_focus(w1), LAMBDA w2 :
       Then(IF w2.priv.widget # NULL
            THEN [w2 EXCEPT !.priv.anchor_signals = FALSE]
            ELSE w2, LAMBDA w3 :
       Then([w3 EXCEPT !.priv.widget = relative_to], LAMBDA w4 :
       Then(IF w4.priv.widget # NULL
            THEN widget_manage_popover(
                   [w4 EXCEPT !.priv.window =
                                 gtk_widget_get_ancestor_window(relative_to),
                              !.priv.anchor_signals = TRUE],
                   relative_to)
            ELSE w4, LAMBDA w5 :
       IF w5.priv.window THEN gtk_window_add_popover(w5) ELSE w5)))))

\* priv.anchor_signals: the popover's handlers are connected to the
\* signals of the anchor
gtk_popover_update_relative_to(w, relative_to) ==
  IF w.priv.widget = relative_to THEN w
  ELSE Then(IF w.priv.window
            THEN [gtk_window_remove_popover(w) EXCEPT !.priv.window = FALSE]
            ELSE w, LAMBDA w1 :
       Then(popover_unset_prev_focus(w1), LAMBDA w2 :
       Then(IF w2.priv.widget # NULL
            THEN widget_unmanage_popover(
                   [w2 EXCEPT !.priv.anchor_signals = FALSE], w2.priv.widget)
            ELSE w2, LAMBDA w3 :
       Then([w3 EXCEPT !.priv.widget = relative_to], LAMBDA w4 :
       Then(IF w4.priv.widget # NULL
            THEN widget_manage_popover(
                   [w4 EXCEPT !.priv.window =
                                 gtk_widget_get_ancestor_window(relative_to),
                              !.priv.anchor_signals = TRUE],
                   relative_to)
            ELSE w4, LAMBDA w5 :
       IF w5.priv.window THEN gtk_window_add_popover(w5) ELSE w5)))))

\* relative_to is NULL or an anchor
gtk_popover_set_relative_to(w, relative_to) ==
  Then(gtk_popover_update_relative_to(w, relative_to), LAMBDA w1 :
  IF relative_to # NULL THEN gtk_popover_update_position(w1) ELSE w1)

\* the anchor is finalized: its table of popovers is freed, which runs the
\* key destroy function for the popover in it
g_object_finalize_anchor(w, anchor) ==
  Then([w EXCEPT !.env.anchors.alive[anchor] = FALSE,
                 !.env.anchors.popovers[anchor] = FALSE,
                 !.env.anchors.managed[anchor] = FALSE], LAMBDA w1 :
  IF w.env.anchors.managed[anchor] THEN _unmanage_popover(w1) ELSE w1)

gtk_popover_update_preferred_position(w, position) ==
  IF w.priv.preferred_position = position THEN w
  ELSE [w EXCEPT !.priv.preferred_position = position]

gtk_popover_set_position(w, position) ==
  IF ~(position >= GTK_POS_LEFT /\ position <= GTK_POS_BOTTOM)
  THEN g_return_if_fail_warning(w)
  ELSE Then(gtk_popover_update_preferred_position(w, position), LAMBDA w1 :
       gtk_popover_update_position(w1))

gtk_popover_set_constrain_to(w, constraint) ==
  IF w.priv.constraint = constraint THEN w
  ELSE Then([w EXCEPT !.priv.constraint = constraint], LAMBDA w1 :
       gtk_popover_update_position(w1))

\* a const GdkRectangle * argument is a sequence: empty for a null
\* pointer, else holding the rectangle pointed to
gtk_popover_update_pointing_to(w, pointing_to) ==
  IF pointing_to # <<>>
  THEN [w EXCEPT !.priv.pointing_to = pointing_to[1],
                 !.priv.has_pointing_to = TRUE]
  ELSE [w EXCEPT !.priv.has_pointing_to = FALSE]

\* rect points to a rectangle in the anchor widget's coordinates
gtk_popover_set_pointing_to(w, rect) ==
  IF rect = <<>>
  THEN g_return_if_fail_warning(w)
  ELSE Then(gtk_popover_update_pointing_to(w, rect), LAMBDA w1 :
       gtk_popover_update_position(w1))

_gtk_popover_parent_size_allocate(w) == gtk_popover_update_position(w)

(* --------------------------- initial state ---------------------------- *)
Sides == GTK_POS_LEFT .. GTK_POS_BOTTOM

ShadowSet ==
  {[top |-> 0, bottom |-> 0, left |-> 0, right |-> 0],
   [top |-> 1, bottom |-> 0, left |-> 0, right |-> 1]}

\* the geometry inputs of the solver: the anchor widget's allocation of
\* 1 x 1 at (1, 1) in a square window, the popover's required size, the
\* window's shadow insets
GeomSet ==
  [x : {1}, y : {1}, width : {1}, height : {1},
   req_width : 1 .. MaxReq, req_height : 1 .. MaxReq,
   win_width : {WindowSize}, win_height : {WindowSize},
   shadow : ShadowSet]

\* the rectangles set_pointing_to is called with: 1 x 1, in the anchor's
\* coordinates, anywhere in the window
RectSet ==
  [x : (0 - 1) .. (MaxCoord - 1), y : (0 - 1) .. (MaxCoord - 1),
   width : {1}, height : {1}]

\* border width and border radius of the contents' style
StyleInit == [border |-> 1, border_radius |-> 2]

\* the geometry the lifecycle specification runs with
RestGeom ==
  [x |-> 1, y |-> 1, width |-> 1, height |-> 1,
   req_width |-> 1, req_height |-> 1,
   win_width |-> WindowSize, win_height |-> WindowSize,
   shadow |-> [top |-> 0, bottom |-> 0, left |-> 0, right |-> 0]]

\* gtk_popover_init on zeroed instance memory
gtk_popover_init ==
  [window |-> TRUE,
   widget |-> AnchorA,
   anchor_signals |-> TRUE,
   modal |-> TRUE,
   tick_id |-> 0,
   state |-> STATE_HIDDEN,
   visible |-> FALSE,
   prev_focus_widget |-> NULL,
   default_widget |-> NULL,
   prev_default |-> NULL,
   grab_notify_blocked |-> FALSE,
   has_pointing_to |-> FALSE,
   pointing_to |-> [x |-> 0, y |-> 0, width |-> 0, height |-> 0],
   preferred_position |-> GTK_POS_TOP,
   constraint |-> GTK_POPOVER_CONSTRAINT_WINDOW,
   final_position |-> 0,
   current_position |-> 0,
   first_frame_skipped |-> FALSE,
   transition_diff |-> 0,
   tracker |-> [iteration |-> 0, is_running |-> FALSE]]

WidgetInit ==
  [visible |-> FALSE, realized |-> FALSE, mapped |-> FALSE,
   opacity |-> EaseDen, has_grab |-> FALSE, input_shape |-> "none"]

ObsInit ==
  [closed |-> 0, last_op |-> "init", last_from |-> STATE_HIDDEN,
   roundtrip |-> 0, quiet |-> FALSE, positioned |-> FALSE,
   shape_updated |-> FALSE, critical |-> FALSE, bad_arg |-> FALSE,
   ticked |-> FALSE, animated |-> FALSE,
   entered |-> FALSE, steps |-> <<>>, release |-> <<>>,
   default_before |-> WindowDefault, default_touched |-> FALSE,
   handler_watched |-> FALSE, block_count |-> 0]

\* the second popover before it is shown
PeerInit ==
  [present |-> FALSE, view |-> "chained", older |-> FALSE,
   priv |-> [gtk_popover_init EXCEPT !.widget = PopoverWidget],
   widget |-> WidgetInit,
   clock |-> [tick_callbacks |-> {}, dispatching |-> 0],
   obs |-> ObsInit,
   observers |-> 0,
   registered |-> TRUE,
   popover_pos |-> 0,
   popover_rect |-> [x |-> 0, y |-> 0, width |-> 0, height |-> 0]]

ToplevelInit ==
  [peer |-> PeerInit,
   observers |-> 0, focus |-> OtherWidget, is_active |-> TRUE,
   other_mapped |-> TRUE,
   registered |-> TRUE,
   default_widget |-> WindowDefault,
   popover_pos |-> 0,
   popover_rect |-> [x |-> 0, y |-> 0, width |-> 0, height |-> 0]]

\* the anchors when the popover was constructed on relative_to
AnchorsInit(relative_to) ==
  [alive |-> [a \in AnchorSet |-> TRUE],
   popovers |-> [a \in AnchorSet |-> a = relative_to],
   managed |-> [a \in AnchorSet |-> a = relative_to]]

Init ==
  /\ \E relative_to \in {AnchorA, AnchorLoose} :
       priv = [gtk_popover_init EXCEPT
                 !.widget = relative_to,
                 !.window = gtk_widget_get_ancestor_window(relative_to)]
  /\ widget = WidgetInit
  /\ toplevel = [ToplevelInit EXCEPT !.registered = priv.window]
  /\ clock = [tick_callbacks |-> {}, dispatching |-> 0]
  /\ \E anim \in BOOLEAN :
       env = [enable_animations |-> anim, direction |-> GTK_TEXT_DIR_LTR,
              wayland |-> FALSE, geom |-> RestGeom, style |-> StyleInit,
              anchors |-> AnchorsInit(priv.widget)]
  /\ obs = [ObsInit EXCEPT !.animated = env.enable_animations]

(* ------------------------------ actions ------------------------------- *)
\* the requests the observer tells apart; any other event is an "event"
NotedOps ==
  {"popup", "popdown", "hide", "tick", "quiesce", "active",
   "size_allocate", "set_pointing_to", "set_relative_to", "finalize_anchor"}

\* the world at the start of a request: the observer notes the request and
\* the state it is made in, and starts a new show/hide cycle when the
\* popover is HIDDEN
Begin(op) ==
  [World EXCEPT
     !.obs.last_op = IF op \in NotedOps THEN op ELSE "event",
     !.obs.last_from = IF op \in {"popup", "popdown"}
                       THEN priv.state
                       ELSE STATE_HIDDEN,
     !.obs.shape_updated = FALSE,
     !.obs.critical = FALSE,
     !.obs.bad_arg = FALSE,
     !.obs.steps = <<>>,
     !.obs.release = <<>>,
     !.obs.closed = IF op # "tick" /\ priv.state = STATE_HIDDEN THEN 0 ELSE @]

\* phase of the popup-then-popdown round trip: 1 after popup() on a HIDDEN
\* popover started the show animation, 2 after popdown() was then called
\* with the animation still running; any other request ends the scenario
RoundTrip(op, w) ==
  IF op = "tick" \/ op = "quiesce" THEN obs.roundtrip
  ELSE IF op = "popup" /\ priv.state = STATE_HIDDEN
          /\ env.enable_animations /\ w.priv.state = STATE_SHOWING
  THEN 1
  ELSE IF op = "popdown" /\ obs.roundtrip = 1 /\ priv.state = STATE_SHOWING
  THEN 2
  ELSE 0

Commit(op, w) ==
  /\ Cardinality(w.clock.tick_callbacks) <= MaxTicks
  /\ w.toplevel.observers <= MaxObservers
  /\ priv' = w.priv
  /\ widget' = w.widget
  /\ toplevel' = w.toplevel
  /\ clock' = w.clock
  /\ env' = w.env
  /\ obs' = [w.obs EXCEPT
               !.roundtrip = RoundTrip(op, w),
               !.ticked = /\ priv.state = STATE_SHOWING
                          /\ w.priv.state = STATE_SHOWING
                          /\ (op = "tick" \/ obs.ticked),
               !.animated = @ \/ w.env.enable_animations,
               !.entered = /\ w.priv.state \in {STATE_SHOWING, STATE_HIDING}
                           /\ \/ w.priv.state # priv.state
                              \/ (op # "tick" /\ obs.entered),
               !.default_before = IF ~widget.mapped /\ w.widget.mapped
                                  THEN toplevel.default_widget
                                  ELSE @,
               !.default_touched =
                  IF op = "window_set_default" THEN w.widget.mapped
                  ELSE IF \/ ~widget.mapped /\ w.widget.mapped
                          \/ /\ widget.mapped
                             /\ w.priv.default_widget # priv.default_widget
                  THEN FALSE
                  ELSE @]

Popup ==
  /\ ~obs.quiet
  /\ \E w \in {gtk_popover_popup(Begin("popup"))} : Commit("popup", w)

Popdown ==
  /\ ~obs.quiet
  /\ \E w \in {gtk_popover_popdown(Begin("popdown"))} : Commit("popdown", w)

Show ==
  /\ ~obs.quiet
  /\ \E w \in {gtk_widget_show(Begin("show"))} : Commit("show", w)

Hide ==
  /\ ~obs.quiet
  /\ \E w \in {gtk_widget_hide(Begin("hide"))} : Commit("hide", w)

\* the anchor widget is unmapped
ParentUnmap ==
  /\ ~obs.quiet
  /\ priv.window
  /\ \E w \in {_gtk_popover_parent_unmap(Begin("unmap"))} :
       Commit("unmap", w)

\* the window's focus widget changes while the popover observes the window
WindowSetFocus(focus) ==
  /\ ~obs.quiet
  /\ toplevel.observers > 0 \/ toplevel.peer.observers > 0
  /\ toplevel.focus # focus
  /\ focus = OtherWidget => toplevel.other_mapped
  /\ toplevel.peer.present =>
       /\ focus = PopoverWidget => widget.mapped
       /\ focus = ChainedWidget => toplevel.peer.widget.mapped
  /\ \E w \in {emit_set_focus_all(
                  [Begin("focus") EXCEPT !.toplevel.focus = focus], focus)} :
       Commit("focus", w)

\* the window becomes active or inactive
WindowActiveChanged ==
  /\ ~obs.quiet
  /\ \E w \in {emit_notify_is_active_all(
                  [Begin("active") EXCEPT !.toplevel.is_active = ~@])} :
       Commit("active", w)

SetModal(modal) ==
  /\ ~obs.quiet
  /\ \E w \in {gtk_popover_set_modal(Begin("set_modal"), modal)} :
       Commit("set_modal", w)

\* the popover is unrealized in the middle of an animation
Unrealize ==
  /\ ~obs.quiet
  /\ priv.state \in {STATE_SHOWING, STATE_HIDING}
  /\ widget.realized
  /\ \E w \in {gtk_widget_unrealize(Begin("unrealize"))} :
       Commit("unrealize", w)

\* the gtk-enable-animations setting changes
SetEnableAnimations(enable) ==
  /\ ~obs.quiet
  /\ env.enable_animations # enable
  /\ Commit("settings",
            [Begin("settings") EXCEPT !.env.enable_animations = enable])

\* the frame clock dispatches one registered tick callback
Tick(id, delta) ==
  /\ id \in clock.tick_callbacks
  /\ widget.realized
  /\ \E w \in {DispatchTick(Begin("tick"), id, delta)} : Commit("tick", w)

\* from here on nobody makes a request: only frame ticks happen
Quiesce ==
  /\ ~obs.quiet
  /\ Commit("quiesce", [World EXCEPT !.obs.quiet = TRUE])

\* a frame tick: the frame clock dispatches some registered callback
FrameTick ==
  \E id \in 1 .. (MaxTicks + 2), delta \in 1 .. MaxDelta : Tick(id, delta)

Next ==
  \/ Popup
  \/ Popdown
  \/ Show
  \/ Hide
  \/ ParentUnmap
  \/ \E focus \in {NULL, PopoverWidget, OtherWidget} : WindowSetFocus(focus)
  \/ Unrealize
  \/ \E enable \in BOOLEAN : SetEnableAnimations(enable)
  \/ FrameTick
  \/ Quiesce

Spec == Init /\ [][Next]_vars

\* the frame clock keeps ticking while a callback is registered
LiveSpec ==
  /\ Init
  /\ [][Next]_vars
  /\ WF_vars(FrameTick)

(* --------------------- the modality specification --------------------- *)
\* a popover with a window and animations enabled; the window's focus and
\* activation change and the popover is made modal and non-modal
ModalInit ==
  /\ Init
  /\ priv.window
  /\ env.enable_animations

ModalNext ==
  \/ Popup
  \/ Popdown
  \/ Show
  \/ Hide
  \/ ParentUnmap
  \/ \E focus \in {NULL, PopoverWidget, OtherWidget} : WindowSetFocus(focus)
  \/ WindowActiveChanged
  \/ \E modal \in BOOLEAN : SetModal(modal)
  \/ FrameTick

SpecModal == ModalInit /\ [][ModalNext]_vars

(* ----------------------- the block specification ---------------------- *)
\* a modal popover with a window is shown and hidden while its window
\* loses and regains the activation; the block count of the anchor's
\* "grab-notify" handler is watched
BlockInit ==
  /\ priv = gtk_popover_init
  /\ widget = WidgetInit
  /\ toplevel = ToplevelInit
  /\ clock = [tick_callbacks |-> {}, dispatching |-> 0]
  /\ env = [enable_animations |-> TRUE, direction |-> GTK_TEXT_DIR_LTR,
            wayland |-> FALSE, geom |-> RestGeom, style |-> StyleInit,
            anchors |-> AnchorsInit(priv.widget)]
  /\ obs = [ObsInit EXCEPT !.animated = TRUE, !.handler_watched = TRUE]

BlockNext ==
  \/ Popup
  \/ Popdown
  \/ Show
  \/ Hide
  \/ WindowActiveChanged
  \/ FrameTick

SpecBlock == BlockInit /\ [][BlockNext]_vars

(* ----------------------- the focus specification ---------------------- *)
\* the widget outside the popover is unmapped: it emits "unmap", which
\* runs prev_focus_unmap_cb while it is the saved focus widget
OtherUnmap ==
  /\ toplevel.other_mapped
  /\ toplevel.focus # OtherWidget
  /\ \E w \in {IF priv.prev_focus_widget = OtherWidget
                THEN prev_focus_unmap_cb(Begin("other_unmap"))
                ELSE Begin("other_unmap")} :
       Commit("other_unmap", [w EXCEPT !.toplevel.other_mapped = FALSE])

\* the widget outside the popover is mapped again
OtherMap ==
  /\ ~toplevel.other_mapped
  /\ Commit("other_map", [Begin("other_map") EXCEPT
                             !.toplevel.other_mapped = TRUE])

FocusSet == {NULL, PopoverWidget, OtherWidget, ChainedWidget, StrayWidget}

\* a modal popover with a window: requests, frame ticks, changes of the
\* window's focus widget and the unmapping of the widget outside
FocusNext ==
  \/ Popup
  \/ Popdown
  \/ Hide
  \/ \E focus \in FocusSet : WindowSetFocus(focus)
  \/ \E modal \in BOOLEAN : SetModal(modal)
  \/ OtherUnmap
  \/ OtherMap
  \/ FrameTick

SpecFocus == ModalInit /\ [][FocusNext]_vars

(* ------------------ the default-widget specification ------------------ *)
SetDefaultWidget(default_widget) ==
  \E w \in {gtk_popover_set_default_widget(Begin("set_default_widget"),
                                            default_widget)} :
    Commit("set_default_widget", w)

\* something other than the popover changes the window's default widget
WindowSetDefault(default_widget) ==
  /\ toplevel.default_widget # default_widget
  /\ \E w \in {gtk_window_set_default(Begin("window_set_default"),
                                      default_widget)} :
       Commit("window_set_default", w)

\* a popover with a window: it is shown and hidden, with and without
\* animation, its default widget is set and the window's default widget is
\* changed from outside
DefaultNext ==
  \/ Popup
  \/ Popdown
  \/ Show
  \/ Hide
  \/ \E d \in {NULL, PopoverDefault} : SetDefaultWidget(d)
  \/ \E d \in {NULL, WindowDefault, OtherDefault} : WindowSetDefault(d)
  \/ FrameTick

SpecDefault == ModalInit /\ [][DefaultNext]_vars

(* --------------------- the animation specification -------------------- *)
\* a popover with a window and animations enabled, with any preferred side
\* and text direction: requests, the unmapping of the anchor and frame ticks
AnimInit ==
  /\ \E pos \in Sides :
       priv = [gtk_popover_init EXCEPT !.preferred_position = pos]
  /\ widget = WidgetInit
  /\ toplevel = ToplevelInit
  /\ clock = [tick_callbacks |-> {}, dispatching |-> 0]
  /\ \E dir \in {GTK_TEXT_DIR_LTR, GTK_TEXT_DIR_RTL} :
       env = [enable_animations |-> TRUE, direction |-> dir,
              wayland |-> FALSE, geom |-> RestGeom, style |-> StyleInit,
              anchors |-> AnchorsInit(priv.widget)]
  /\ obs = [ObsInit EXCEPT !.animated = TRUE]

AnimNext ==
  \/ Popup
  \/ Popdown
  \/ Hide
  \/ ParentUnmap
  \/ FrameTick

SpecAnim == AnimInit /\ [][AnimNext]_vars

(* --------------------- the geometry specification --------------------- *)
GeomInit ==
  /\ \E pos \in Sides :
       priv = [gtk_popover_init EXCEPT !.preferred_position = pos]
  /\ widget = WidgetInit
  /\ toplevel = ToplevelInit
  /\ clock = [tick_callbacks |-> {}, dispatching |-> 0]
  /\ \E dir \in {GTK_TEXT_DIR_LTR, GTK_TEXT_DIR_RTL}, way \in BOOLEAN,
        g \in GeomSet :
       env = [enable_animations |-> TRUE, direction |-> dir,
              wayland |-> way, geom |-> g, style |-> StyleInit,
              anchors |-> AnchorsInit(priv.widget)]
  /\ obs = [ObsInit EXCEPT !.animated = TRUE]

\* ran: the call reached gtk_popover_update_position
GeomCommit(op, w, ran) ==
  /\ priv' = w.priv
  /\ widget' = w.widget
  /\ toplevel' = w.toplevel
  /\ clock' = w.clock
  /\ env' = w.env
  /\ obs' = [w.obs EXCEPT !.positioned = @ \/ ran]

\* bad: the argument is outside the range of its type
SetPosition(position) ==
  /\ ~obs.quiet
  /\ \E w \in {gtk_popover_set_position(Begin("set_position"), position)} :
       GeomCommit("set_position",
                  [w EXCEPT !.obs.bad_arg = position \notin Sides],
                  position \in Sides)

SetConstrainTo(constraint) ==
  /\ ~obs.quiet
  /\ \E w \in {gtk_popover_set_constrain_to(Begin("set_constrain_to"),
                                             constraint)} :
       GeomCommit("set_constrain_to",
                  [w EXCEPT !.obs.bad_arg = constraint = ConstraintOutOfRange],
                  priv.constraint # constraint)

SetPointingTo(rect) ==
  /\ ~obs.quiet
  /\ \E w \in {gtk_popover_set_pointing_to(Begin("set_pointing_to"), rect)} :
       GeomCommit("set_pointing_to",
                  [w EXCEPT !.obs.bad_arg = rect = <<>>],
                  rect # <<>>)

\* the anchor widget is allocated a size
ParentSizeAllocate ==
  /\ priv.window
  /\ \E w \in {_gtk_popover_parent_size_allocate(Begin("size_allocate"))} :
       GeomCommit("size_allocate", w, TRUE)

\* gtk_widget_show() on the popover
GeomShow ==
  /\ ~widget.visible
  /\ \E w \in {gtk_widget_show(Begin("show"))} :
       GeomCommit("show", w, TRUE)

GeomNext ==
  \/ \E position \in Sides \cup {PositionOutOfRange} : SetPosition(position)
  \/ \E constraint \in {GTK_POPOVER_CONSTRAINT_NONE,
                        GTK_POPOVER_CONSTRAINT_WINDOW,
                        ConstraintOutOfRange} :
       SetConstrainTo(constraint)
  \/ \E rect \in {<<>>} \cup {<<r>> : r \in RectSet} : SetPointingTo(rect)
  \/ ParentSizeAllocate
  \/ GeomShow

SpecGeom == GeomInit /\ [][GeomNext]_vars

(* ----------------------- the shape specification --------------------- *)
\* the geometry specification for a popover constructed on an anchor inside
\* a window or on an anchor that has no window
ShapeInit ==
  /\ \E pos \in Sides, relative_to \in {AnchorA, AnchorLoose} :
       priv = [gtk_popover_init EXCEPT
                 !.preferred_position = pos,
                 !.widget = relative_to,
                 !.window = gtk_widget_get_ancestor_window(relative_to)]
  /\ widget = WidgetInit
  /\ toplevel = [ToplevelInit EXCEPT !.registered = priv.window]
  /\ clock = [tick_callbacks |-> {}, dispatching |-> 0]
  /\ \E dir \in {GTK_TEXT_DIR_LTR, GTK_TEXT_DIR_RTL}, way \in BOOLEAN,
        g \in GeomSet :
       env = [enable_animations |-> TRUE, direction |-> dir,
              wayland |-> way, geom |-> g, style |-> StyleInit,
              anchors |-> AnchorsInit(priv.widget)]
  /\ obs = [ObsInit EXCEPT !.animated = TRUE]

ShapeNext ==
  \/ \E position \in Sides : SetPosition(position)
  \/ \E rect \in {<<r>> : r \in RectSet} : SetPointingTo(rect)
  \/ ParentSizeAllocate
  \/ GeomShow

SpecShape == ShapeInit /\ [][ShapeNext]_vars

(* ----------------------- the arrow specification --------------------- *)
\* the shortest edge that holds the gap of the arrow between the corners
GapMinSize == 2 * StyleInit.border_radius + TAIL_GAP_WIDTH

GapWindowSize == GapMinSize + MaxSlack + TAIL_GAP_WIDTH

GapSizes == {GapMinSize - 1, GapMinSize, GapMinSize + MaxSlack}

\* popovers large enough for an arrow, and one pixel too small, in a
\* window that leaves room on every side
GapGeomSet ==
  [x : {1}, y : {1}, width : {1}, height : {1},
   req_width : GapSizes, req_height : GapSizes,
   win_width : {GapWindowSize}, win_height : {GapWindowSize},
   shadow : {[top |-> 0, bottom |-> 0, left |-> 0, right |-> 0]}]

\* rectangles at the near edge, in the middle and at the far edge of the
\* window
GapRectSet ==
  [x : {0, GapWindowSize \div 2, GapWindowSize - 2},
   y : {0, GapWindowSize \div 2, GapWindowSize - 2},
   width : {1}, height : {1}]

GapInit ==
  /\ priv = gtk_popover_init
  /\ widget = WidgetInit
  /\ toplevel = ToplevelInit
  /\ clock = [tick_callbacks |-> {}, dispatching |-> 0]
  /\ \E dir \in {GTK_TEXT_DIR_LTR, GTK_TEXT_DIR_RTL}, g \in GapGeomSet :
       env = [enable_animations |-> TRUE, direction |-> dir,
              wayland |-> FALSE, geom |-> g, style |-> StyleInit,
              anchors |-> AnchorsInit(priv.widget)]
  /\ obs = [ObsInit EXCEPT !.animated = TRUE]

GapNext ==
  \/ \E position \in Sides : SetPosition(position)
  \/ \E rect \in {<<r>> : r \in GapRectSet} : SetPointingTo(rect)
  \/ GeomShow

SpecGap == GapInit /\ [][GapNext]_vars

(* -------------------- the two-popover specification ------------------- *)
\* a request to the peer: the peer's functions run with the two popovers
\* exchanged
PeerRun(w) == [AsPeer(w) EXCEPT !.toplevel.peer.obs = ObsInit]

\* the peer is opened from a widget inside the popover
PeerPopup ==
  /\ widget.mapped
  /\ \E w \in {PeerRun(gtk_popover_popup(AsPeer(Begin("peer_popup"))))} :
       Commit("peer_popup", w)

PeerPopdown ==
  \E w \in {PeerRun(gtk_popover_popdown(AsPeer(Begin("peer_popdown"))))} :
    Commit("peer_popdown", w)

\* two modal popovers in an active window, without animations
GrabInit ==
  /\ priv = gtk_popover_init
  /\ widget = WidgetInit
  /\ toplevel = [ToplevelInit EXCEPT !.peer.present = TRUE]
  /\ clock = [tick_callbacks |-> {}, dispatching |-> 0]
  /\ env = [enable_animations |-> FALSE, direction |-> GTK_TEXT_DIR_LTR,
            wayland |-> FALSE, geom |-> RestGeom, style |-> StyleInit,
            anchors |-> AnchorsInit(priv.widget)]
  /\ obs = ObsInit

GrabNext ==
  \/ Popup
  \/ Popdown
  \/ PeerPopup
  \/ PeerPopdown
  \/ \E focus \in {NULL, PopoverWidget, OtherWidget, ChainedWidget} :
       WindowSetFocus(focus)
  \/ WindowActiveChanged

SpecGrab == GrabInit /\ [][GrabNext]_vars

(* ---------------------- the anchor specification ---------------------- *)
\* a popover constructed with the relative-to property, which is set by
\* gtk_popover_set_relative_to; it is never shown
AnchorInit ==
  \E relative_to \in {NULL} \cup AnchorSet :
    \E w \in {gtk_popover_set_relative_to(
                [priv |-> [gtk_popover_init EXCEPT !.widget = NULL,
                                                   !.window = FALSE,
                                                   !.anchor_signals = FALSE],
                 widget |-> WidgetInit,
                 toplevel |-> [ToplevelInit EXCEPT !.registered = FALSE],
                 clock |-> [tick_callbacks |-> {}, dispatching |-> 0],
                 env |-> [enable_animations |-> TRUE,
                          direction |-> GTK_TEXT_DIR_LTR,
                          wayland |-> FALSE, geom |-> RestGeom,
                          style |-> StyleInit,
                          anchors |-> AnchorsInit(NULL)],
                 obs |-> [ObsInit EXCEPT !.animated = TRUE]],
                relative_to)} :
      /\ priv = w.priv
      /\ widget = w.widget
      /\ toplevel = w.toplevel
      /\ clock = w.clock
      /\ env = w.env
      /\ obs = w.obs

SetRelativeTo(relative_to) ==
  /\ relative_to # NULL => env.anchors.alive[relative_to]
  /\ \E w \in {gtk_popover_set_relative_to(Begin("set_relative_to"),
                                           relative_to)} :
       Commit("set_relative_to", w)

\* the last reference to an anchor is dropped
FinalizeAnchor(anchor) ==
  /\ env.anchors.alive[anchor]
  /\ \E w \in {g_object_finalize_anchor(Begin("finalize_anchor"), anchor)} :
       Commit("finalize_anchor", w)

AnchorNext ==
  \/ \E relative_to \in {NULL} \cup AnchorSet : SetRelativeTo(relative_to)
  \/ \E anchor \in AnchorSet : FinalizeAnchor(anchor)
  \/ \E position \in Sides : SetPosition(position)

SpecAnchor == AnchorInit /\ [][AnchorNext]_vars

(* ============================== claims ================================ *)

\* C1: with animations enabled, once popup() on a HIDDEN popover has been
\* followed by popdown() while the show animation was still running, then
\* under continued frame ticks and no further request the popover reaches
\* HIDDEN with closed emitted exactly once in that cycle.
C1_RoundTripEndsHidden ==
  (obs.roundtrip = 2 /\ obs.quiet)
    ~> (priv.state = STATE_HIDDEN /\ obs.closed = 1)

C1_Witness ==
  /\ obs.roundtrip = 2
  /\ obs.quiet
  /\ priv.state = STATE_HIDDEN
  /\ obs.closed = 1
  /\ obs.last_op = "tick"

\* C2: every step that takes the popover from a state other than HIDDEN
\* into HIDDEN ends a cycle in which closed was emitted exactly once.
C2_ClosedOncePerHide ==
  [][(priv.state # STATE_HIDDEN /\ priv'.state = STATE_HIDDEN)
       => obs'.closed = 1]_vars

\* C3: after popup() called in HIDDEN or HIDING the visible flag is set, a
\* modal popover with a window holds the grab and observes the window, and
\* the state is SHOWING when animations are enabled and the popover is
\* realized, SHOWN otherwise.
C3_PopupMakesVisible ==
  (obs.last_op = "popup" /\ obs.last_from \in {STATE_HIDDEN, STATE_HIDING})
    => /\ priv.visible
       /\ (priv.modal /\ priv.window) =>
             (widget.has_grab /\ toplevel.observers > 0)
       /\ priv.state = IF env.enable_animations /\ widget.realized
                       THEN STATE_SHOWING
                       ELSE STATE_SHOWN

\* C4: when popdown() called in SHOWING or SHOWN returns, the visible flag
\* is false, the grab is removed, the window observers are disconnected
\* and the input region of a realized popover is empty.
C4_PopdownReleasesModality ==
  (obs.last_op = "popdown" /\ obs.last_from \in {STATE_SHOWING, STATE_SHOWN})
    => /\ ~priv.visible
       /\ ~widget.has_grab
       /\ toplevel.observers = 0
       /\ widget.realized => widget.input_shape = "empty"

\* C5: at most one tick callback of the popover is registered at any time.
C5_AtMostOneTick == Cardinality(clock.tick_callbacks) <= 1

\* C6: after an immediate hide the state is HIDDEN, the offset is 0, the
\* opacity is full, the tracker is finished and no tick callback of the
\* popover is registered.
C6_HideSettles ==
  obs.last_op = "hide"
    => /\ priv.state = STATE_HIDDEN
       /\ priv.transition_diff = 0
       /\ widget.opacity = EaseDen
       /\ gtk_progress_tracker_get_state(priv.tracker)
            = GTK_PROGRESS_STATE_AFTER
       /\ clock.tick_callbacks = {}

(* ------------------- side resolution, as the claims state it ---------- *)
\* the preferred side with LEFT and RIGHT swapped under right-to-left
EffectivePreferred ==
  IF env.direction = GTK_TEXT_DIR_RTL /\ priv.preferred_position = GTK_POS_LEFT
  THEN GTK_POS_RIGHT
  ELSE IF env.direction = GTK_TEXT_DIR_RTL
          /\ priv.preferred_position = GTK_POS_RIGHT
  THEN GTK_POS_LEFT
  ELSE priv.preferred_position

OppositeOf(side) ==
  IF side = GTK_POS_TOP THEN GTK_POS_BOTTOM
  ELSE IF side = GTK_POS_BOTTOM THEN GTK_POS_TOP
  ELSE IF side = GTK_POS_LEFT THEN GTK_POS_RIGHT
  ELSE GTK_POS_LEFT

\* the anchor rectangle in window coordinates: the explicit rectangle if
\* one is set, else the anchor widget's allocation
AnchorRect ==
  IF priv.has_pointing_to
  THEN [x |-> env.geom.x + priv.pointing_to.x,
        y |-> env.geom.y + priv.pointing_to.y,
        width |-> priv.pointing_to.width,
        height |-> priv.pointing_to.height]
  ELSE [x |-> env.geom.x, y |-> env.geom.y,
        width |-> env.geom.width, height |-> env.geom.height]

\* overshoot of a side of the window
SideOvershoot(side) ==
  IF side = GTK_POS_TOP
  THEN env.geom.req_height - AnchorRect.y + env.geom.shadow.top
  ELSE IF side = GTK_POS_BOTTOM
  THEN AnchorRect.y + AnchorRect.height + env.geom.req_height
         - env.geom.win_height + env.geom.shadow.bottom
  ELSE IF side = GTK_POS_LEFT
  THEN env.geom.req_width - AnchorRect.x + env.geom.shadow.left
  ELSE AnchorRect.x + AnchorRect.width + env.geom.req_width
         - env.geom.win_width + env.geom.shadow.right

\* overshoot of the side a resolved_side value stands for under the text
\* direction
ResolvedOvershoot(side) ==
  SideOvershoot(IF env.direction = GTK_TEXT_DIR_RTL
                   /\ side \in {GTK_POS_LEFT, GTK_POS_RIGHT}
                THEN OppositeOf(side)
                ELSE side)

\* the first side of order whose overshoot is the smallest of all 4
FirstMinimal(order) ==
  LET least(i) == \A s \in Sides :
                    ResolvedOvershoot(order[i]) <= ResolvedOvershoot(s)
  IN  order[CHOOSE i \in 1 .. 4 :
              least(i) /\ \A j \in 1 .. (i - 1) : ~least(j)]

\* the solver resolves against the window: the constraint is WINDOW, or
\* the host cannot place popovers freely
WindowConstrained ==
  priv.constraint = GTK_POPOVER_CONSTRAINT_WINDOW \/ ~env.wayland

NeitherFits ==
  /\ SideOvershoot(EffectivePreferred) > 0
  /\ SideOvershoot(OppositeOf(EffectivePreferred)) > 0

\* C7: with window-constrained placement, an overshoot of the effective
\* preferred side that is less than or equal to 0 resolves to the preferred
\* side.
C7_PreferredSideFits ==
  (/\ obs.positioned
   /\ priv.constraint = GTK_POPOVER_CONSTRAINT_WINDOW
   /\ SideOvershoot(EffectivePreferred) <= 0)
    => priv.final_position = priv.preferred_position

\* the boundary: overshoot exactly 0 on the effective preferred side, with
\* LEFT and RIGHT swapped
C7_Witness ==
  /\ obs.positioned
  /\ priv.constraint = GTK_POPOVER_CONSTRAINT_WINDOW
  /\ env.direction = GTK_TEXT_DIR_RTL
  /\ priv.preferred_position = GTK_POS_LEFT
  /\ SideOvershoot(GTK_POS_RIGHT) = 0
  /\ SideOvershoot(GTK_POS_LEFT) > 0
  /\ priv.final_position = GTK_POS_LEFT

\* C8: with window-constrained placement, when the effective preferred side
\* overshoots and its opposite does not, the resolved side is the opposite
\* of the preferred side.
C8_FlipsToOpposite ==
  (/\ obs.positioned
   /\ priv.constraint = GTK_POPOVER_CONSTRAINT_WINDOW
   /\ SideOvershoot(EffectivePreferred) > 0
   /\ SideOvershoot(OppositeOf(EffectivePreferred)) <= 0)
    => priv.final_position = OppositeOf(priv.preferred_position)

C8_Witness ==
  /\ obs.positioned
  /\ priv.constraint = GTK_POPOVER_CONSTRAINT_WINDOW
  /\ env.direction = GTK_TEXT_DIR_RTL
  /\ priv.preferred_position = GTK_POS_RIGHT
  /\ SideOvershoot(GTK_POS_LEFT) > 0
  /\ SideOvershoot(GTK_POS_RIGHT) <= 0
  /\ priv.final_position = GTK_POS_LEFT

\* C9 as claimed: when neither the effective preferred side nor its
\* opposite fits, the resolved side is the first side in the order TOP,
\* BOTTOM, LEFT, RIGHT whose overshoot is the smallest.
C9_TieOrderTopFirst ==
  (obs.positioned /\ WindowConstrained /\ NeitherFits)
    => priv.final_position
         = FirstMinimal(<<GTK_POS_TOP, GTK_POS_BOTTOM,
                          GTK_POS_LEFT, GTK_POS_RIGHT>>)

\* C9 as amended: when neither the effective preferred side nor its
\* opposite fits, the resolved side is the first resolved_side value in the
\* order LEFT, RIGHT, TOP, BOTTOM whose overshoot is the smallest.
C9_TieOrderLeftFirst ==
  (obs.positioned /\ WindowConstrained /\ NeitherFits)
    => priv.final_position
         = FirstMinimal(<<GTK_POS_LEFT, GTK_POS_RIGHT,
                          GTK_POS_TOP, GTK_POS_BOTTOM>>)

\* a tie between LEFT and a vertical side, resolved to LEFT
C9_Witness ==
  /\ obs.positioned
  /\ WindowConstrained
  /\ NeitherFits
  /\ env.direction = GTK_TEXT_DIR_LTR
  /\ priv.preferred_position = GTK_POS_TOP
  /\ SideOvershoot(GTK_POS_LEFT) = SideOvershoot(GTK_POS_BOTTOM)
  /\ SideOvershoot(GTK_POS_LEFT) < SideOvershoot(GTK_POS_TOP)
  /\ SideOvershoot(GTK_POS_LEFT) <= SideOvershoot(GTK_POS_RIGHT)
  /\ priv.final_position = GTK_POS_LEFT

\* the side the window-constrained resolution gives
WindowConstrainedSide ==
  IF SideOvershoot(EffectivePreferred) <= 0
  THEN priv.preferred_position
  ELSE IF SideOvershoot(OppositeOf(EffectivePreferred)) <= 0
  THEN OppositeOf(priv.preferred_position)
  ELSE FirstMinimal(<<GTK_POS_LEFT, GTK_POS_RIGHT,
                      GTK_POS_TOP, GTK_POS_BOTTOM>>)

\* C10: with constraint NONE on a host that places popovers freely the
\* resolved side is the preferred side whatever the overshoots are; with
\* constraint NONE on any other host the resolved side is the one the
\* window-constrained resolution gives.
C10_UnconstrainedKeepsPreferred ==
  (obs.positioned /\ priv.constraint = GTK_POPOVER_CONSTRAINT_NONE)
    => priv.final_position = IF env.wayland
                             THEN priv.preferred_position
                             ELSE WindowConstrainedSide

\* the preferred side overshoots, its opposite fits, and it is kept
C10_Witness ==
  /\ obs.positioned
  /\ priv.constraint = GTK_POPOVER_CONSTRAINT_NONE
  /\ env.wayland
  /\ SideOvershoot(EffectivePreferred) > 0
  /\ SideOvershoot(OppositeOf(EffectivePreferred)) <= 0
  /\ priv.final_position = priv.preferred_position

\* C11: when gtk_popover_update_position has run since the last change of
\* its inputs, a further call (made when the anchor is allocated a size)
\* leaves the resolved side, the rendered side, the position and rectangle
\* handed to the window and the arrow coordinates as they were, and does
\* not recompute the shape.
C11_RecomputeIdempotent ==
  [][(obs.positioned /\ obs'.last_op = "size_allocate")
       => /\ priv'.final_position = priv.final_position
          /\ priv'.current_position = priv.current_position
          /\ toplevel'.popover_pos = toplevel.popover_pos
          /\ toplevel'.popover_rect = toplevel.popover_rect
          /\ gtk_popover_get_gap_coords(World)'
               = gtk_popover_get_gap_coords(World)
          /\ ~obs'.shape_updated]_vars

\* a repeated call on a drawable popover whose resolved side is not the
\* side the rendered side started with, after an explicit rectangle was set
C11_Witness ==
  /\ obs.positioned
  /\ obs.last_op = "size_allocate"
  /\ priv.has_pointing_to
  /\ widget.visible /\ widget.mapped
  /\ ~env.wayland
  /\ priv.final_position = GTK_POS_BOTTOM
  /\ priv.current_position = GTK_POS_BOTTOM
  /\ ~obs.shape_updated

\* C12: on every step that leaves the state SHOWING the eased progress
\* does not decrease, and a tick that follows an earlier tick of the same
\* stay in SHOWING does not set a smaller opacity; a step from SHOWING to
\* SHOWN is a tick with the progress tracker at its end.
C12_ShowingMonotone ==
  [][priv.state = STATE_SHOWING
       => /\ priv'.state = STATE_SHOWING
               => /\ gtk_progress_tracker_get_ease_out_cubic(priv'.tracker)
                      >= gtk_progress_tracker_get_ease_out_cubic(priv.tracker)
                  /\ (obs.ticked /\ obs'.last_op = "tick")
                       => widget'.opacity >= widget.opacity
          /\ priv'.state = STATE_SHOWN
               => /\ obs'.last_op = "tick"
                  /\ gtk_progress_tracker_get_iteration(priv'.tracker)
                       = TrackerSteps]_vars

\* a tick after an earlier tick of the same stay in SHOWING has raised the
\* opacity to a value between none and full
C12_Witness ==
  /\ priv.state = STATE_SHOWING
  /\ obs.ticked
  /\ obs.last_op = "tick"
  /\ widget.opacity > 0
  /\ widget.opacity < EaseDen

\* C13: when the window's activation changes while a modal popover is
\* shown (visible flag set) and drawable, afterwards the popover holds the
\* grab exactly if the window is active, the saved focus widget is the
\* same as before, and after a change to active the focus is in the
\* popover.
C13_GrabFollowsActivation ==
  [][(/\ obs'.last_op = "active"
      /\ priv.modal /\ priv.visible
      /\ widget.visible /\ widget.mapped)
       => /\ widget'.has_grab = toplevel'.is_active
          /\ priv'.prev_focus_widget = priv.prev_focus_widget
          /\ toplevel'.is_active => toplevel'.focus = PopoverWidget
          /\ ~toplevel'.is_active => toplevel'.focus = toplevel.focus]_vars

\* the window became active again with the focus outside the popover: the
\* grab is back, the saved focus widget is kept and the focus is in the
\* popover
C13_Witness ==
  /\ obs.last_op = "active"
  /\ priv.modal /\ priv.visible
  /\ widget.visible /\ widget.mapped
  /\ toplevel.is_active
  /\ widget.has_grab
  /\ ~priv.grab_notify_blocked
  /\ priv.prev_focus_widget = OtherWidget
  /\ toplevel.focus = PopoverWidget
  /\ priv.state = STATE_SHOWN

\* C14: the saved focus widget is set only while the popover observes the
\* window after acquiring modality, and never when the popover is HIDDEN or
\* not modal.
C14_SavedFocusOnlyWhileModal ==
  priv.prev_focus_widget # NULL
    => /\ toplevel.observers > 0
       /\ priv.state # STATE_HIDDEN
       /\ priv.modal

\* C15: the window observers of the popover are connected at most once:
\* modality is not acquired again before it is released.
C15_ModalityAcquiredOnce == toplevel.observers <= 1

\* C16: a tick callback of the popover is registered if and only if the
\* state is SHOWING or HIDING.
C16_TickIffAnimating ==
  (clock.tick_callbacks # {})
    <=> (priv.state \in {STATE_SHOWING, STATE_HIDING})

\* C17: after popup() made in HIDDEN or HIDING with animations disabled or
\* the popover not realized the state is SHOWN; after popdown() made in
\* SHOWING or SHOWN with animations disabled or the popover not realized
\* the state is HIDDEN and the widget is not visible; in both cases no
\* tick callback is registered; and while animations have never been
\* enabled the state is neither SHOWING nor HIDING.
C17_NoAnimationJumps ==
  /\ (/\ obs.last_op = "popup"
      /\ obs.last_from \in {STATE_HIDDEN, STATE_HIDING}
      /\ (~env.enable_animations \/ ~widget.realized))
       => (priv.state = STATE_SHOWN /\ clock.tick_callbacks = {})
  /\ (/\ obs.last_op = "popdown"
      /\ obs.last_from \in {STATE_SHOWING, STATE_SHOWN}
      /\ (~env.enable_animations \/ ~widget.realized))
       => (/\ priv.state = STATE_HIDDEN
           /\ ~widget.visible
           /\ clock.tick_callbacks = {})
  /\ ~obs.animated => priv.state \notin {STATE_SHOWING, STATE_HIDING}

\* C18: in SHOWING and in HIDING a tick callback is registered and the
\* frame clock dispatches it (the popover is realized).
C18_NoStuckTransition ==
  priv.state \in {STATE_SHOWING, STATE_HIDING}
    => (clock.tick_callbacks # {} /\ widget.realized)

\* C19: a setter called with a value outside its enumeration reports a
\* contract violation and changes no field of the popover, nothing of its
\* widget state and nothing handed to the window.
C19_SettersRejectOutOfRange ==
  [][obs'.bad_arg
       => /\ obs'.critical
          /\ priv' = priv
          /\ widget' = widget
          /\ toplevel' = toplevel]_vars

\* C20: set_pointing_to called without a rectangle on a popover with an
\* explicit rectangle leaves no explicit rectangle set: get_pointing_to
\* returns FALSE with the anchor widget's allocation, and the rectangle
\* handed to the window is that allocation.
C20_NullClearsPointingTo ==
  [][(/\ obs'.last_op = "set_pointing_to"
      /\ obs'.bad_arg
      /\ priv.has_pointing_to)
       => /\ ~gtk_popover_get_pointing_to(World)'.ret
          /\ gtk_popover_get_pointing_to(World)'.rect
               = [x |-> 0, y |-> 0,
                  width |-> env'.geom.width, height |-> env'.geom.height]
          /\ toplevel'.popover_rect
               = [x |-> env'.geom.x, y |-> env'.geom.y,
                  width |-> env'.geom.width,
                  height |-> env'.geom.height]]_vars

\* C23: popup() called in SHOWING or SHOWN and popdown() called in HIDING
\* or HIDDEN change nothing: the state, the visible flag, the tracker, the
\* offset, the registered tick callbacks, the grab, the window observers,
\* the saved focus widget and the focus are as before, and closed is not
\* emitted during the call.
C23_RedundantRequestIsNoOp ==
  [][(\/ /\ obs'.last_op = "popup"
         /\ obs'.last_from \in {STATE_SHOWING, STATE_SHOWN}
      \/ /\ obs'.last_op = "popdown"
         /\ obs'.last_from \in {STATE_HIDING, STATE_HIDDEN})
       => /\ priv' = priv
          /\ widget' = widget
          /\ toplevel' = toplevel
          /\ clock' = clock
          /\ obs'.closed = Begin(obs'.last_op).obs.closed]_vars

\* popup() was called during the show animation of a modal popover, after
\* a frame had advanced the tracker
C23_Witness ==
  /\ obs.last_op = "popup"
  /\ obs.last_from = STATE_SHOWING
  /\ priv.state = STATE_SHOWING
  /\ priv.visible /\ widget.has_grab /\ toplevel.observers = 1
  /\ priv.tracker.iteration > 0
  /\ clock.tick_callbacks # {}

\* C27: once no further request is made and the frame clock keeps
\* dispatching the popover's tick callbacks (the popover is realized), a
\* SHOWING popover whose visible flag is set reaches SHOWN, a SHOWING popover
\* whose visible flag was cleared by the unmapping of its anchor reaches
\* HIDDEN, and a HIDING popover reaches HIDDEN with its widget not visible.
C27_TransitionsTerminate ==
  /\ (/\ obs.quiet /\ widget.realized
      /\ priv.state = STATE_SHOWING /\ priv.visible)
       ~> (priv.state = STATE_SHOWN)
  /\ (/\ obs.quiet /\ widget.realized
      /\ priv.state = STATE_SHOWING /\ ~priv.visible)
       ~> (priv.state = STATE_HIDDEN /\ ~widget.visible)
  /\ (obs.quiet /\ widget.realized /\ priv.state = STATE_HIDING)
       ~> (priv.state = STATE_HIDDEN /\ ~widget.visible)

\* the anchor was unmapped during the show animation and the ticks that
\* followed took the popover through SHOWN and HIDING to HIDDEN
C27_Witness ==
  /\ obs.quiet
  /\ obs.last_op = "tick"
  /\ priv.state = STATE_HIDDEN
  /\ ~priv.visible
  /\ ~widget.visible
  /\ obs.closed = 0
  /\ clock.tick_callbacks = {}

\* C28: a tick that leaves the popover SHOWING sets the opacity to the
\* eased progress t and the offset to TRANSITION_DIFF x (1 - t), between 0
\* and TRANSITION_DIFF; a tick that leaves it HIDING sets the opacity to
\* 1 - t and the offset to TRANSITION_DIFF x t with the opposite sign; in
\* both cases the rectangle handed to the window is the anchor rectangle
\* moved by the size of the offset along the axis of the resolved side and
\* not moved along the other axis.
C28_OffsetFollowsProgress ==
  [][(obs'.last_op = "tick" /\ priv'.state = priv.state)
       => LET t == gtk_progress_tracker_get_ease_out_cubic(priv'.tracker)
              d == priv'.transition_diff
              size == IF d < 0 THEN 0 - d ELSE d
              dx == toplevel'.popover_rect.x - AnchorRect.x
              dy == toplevel'.popover_rect.y - AnchorRect.y
          IN  /\ priv.state = STATE_SHOWING
                   => /\ widget'.opacity = t
                      /\ d = (TRANSITION_DIFF * (EaseDen - t)) \div EaseDen
                      /\ d \in 0 .. TRANSITION_DIFF
              /\ priv.state = STATE_HIDING
                   => /\ widget'.opacity = EaseDen - t
                      /\ 0 - d = (TRANSITION_DIFF * t) \div EaseDen
                      /\ d \in (0 - TRANSITION_DIFF) .. 0
              /\ priv.state \in {STATE_SHOWING, STATE_HIDING}
                   => IF priv'.final_position \in {GTK_POS_TOP, GTK_POS_BOTTOM}
                      THEN dx = 0 /\ (dy = size \/ dy = 0 - size)
                      ELSE dy = 0 /\ (dx = size \/ dx = 0 - size)]_vars

\* a frame in the middle of the hide animation of a popover placed on a
\* horizontal side
C28_Witness ==
  /\ obs.last_op = "tick"
  /\ priv.state = STATE_HIDING
  /\ priv.final_position = GTK_POS_RIGHT
  /\ priv.transition_diff < 0
  /\ priv.transition_diff > 0 - TRANSITION_DIFF
  /\ widget.opacity > 0 /\ widget.opacity < EaseDen
  /\ toplevel.popover_rect.x # AnchorRect.x
  /\ toplevel.popover_rect.y = AnchorRect.y

\* C29: the first tick dispatched after the popover entered SHOWING or
\* HIDING does not advance the progress tracker.
C29_FirstTickOnlyBaselines ==
  [][(obs.entered /\ obs'.last_op = "tick")
       => priv'.tracker.iteration = priv.tracker.iteration]_vars

InsideOrChained(focus) == focus \in {PopoverWidget, ChainedWidget}

C26_ReleaseRestoresFocus ==
  [][/\ obs'.release # <<>>
        => /\ toplevel'.observers = 0
           /\ ~widget'.has_grab
           /\ priv'.prev_focus_widget = NULL
           /\ toplevel'.focus = IF /\ obs'.release[1].saved # NULL
                                   /\ obs'.release[1].drawable
                                THEN obs'.release[1].saved
                                ELSE NULL
           /\ obs'.release[1].saved = priv.prev_focus_widget
                 \/ obs'.release[1].saved = NULL
     /\ (priv.prev_focus_widget = OtherWidget /\ ~toplevel'.other_mapped)
        => priv'.prev_focus_widget = NULL]_vars

\* modality was released after the saved focus widget had been unmapped:
\* the focus is on the window
C26_Witness ==
  /\ obs.release = <<[saved |-> NULL, drawable |-> FALSE]>>
  /\ ~toplevel.other_mapped
  /\ toplevel.focus = NULL
  /\ priv.prev_focus_widget = NULL
  /\ toplevel.observers = 0
  /\ ~widget.has_grab
  /\ obs.last_op = "popdown"

\* C21: a step that maps the popover makes the popover's default widget
\* the window's default widget and remembers the one the window had; a
\* step that unmaps it gives the window the default widget it had before
\* the popover was mapped when nothing else changed the window's default
\* widget since the popover set it, and leaves the window's default widget
\* as it is when something else changed it.
C21_DefaultRestored ==
  [][/\ (~widget.mapped /\ widget'.mapped)
        => /\ toplevel'.default_widget = priv'.default_widget
           /\ priv'.prev_default = toplevel.default_widget
     /\ (widget.mapped /\ ~widget'.mapped)
        => toplevel'.default_widget = IF obs.default_touched
                                      THEN toplevel.default_widget
                                      ELSE obs.default_before]_vars

\* C22: the popover is in the collection of attached popovers of exactly
\* the widget it is attached to; while it is attached to no widget it has
\* no window and is not registered with one; detaching it and finalizing
\* its anchor both leave it attached to no widget; attaching it to the
\* widget it is attached to changes nothing.
C22_AnchorCollection ==
  /\ [](/\ \A a \in AnchorSet : env.anchors.managed[a] <=> priv.widget = a
        /\ toplevel.registered <=> priv.window
        /\ priv.widget = NULL => ~priv.window /\ ~toplevel.registered)
  /\ [][/\ SetRelativeTo(NULL) => priv'.widget = NULL
        /\ \A a \in AnchorSet :
             /\ (FinalizeAnchor(a) /\ priv.widget = a) => priv'.widget = NULL
             /\ (SetRelativeTo(a) /\ priv.widget = a) =>
                  /\ priv' = priv
                  /\ widget' = widget
                  /\ toplevel' = toplevel
                  /\ clock' = clock
                  /\ env' = env]_vars

\* the popover was moved to the second anchor, which was then finalized
C22_Witness ==
  /\ obs.last_op = "finalize_anchor"
  /\ priv.widget = NULL
  /\ ~priv.anchor_signals
  /\ ~env.anchors.alive[AnchorB]
  /\ env.anchors.alive[AnchorA]
  /\ env.anchors.popovers[AnchorA]
  /\ ~toplevel.registered

\* C24: at most one popover holds the grab, and when the window becomes
\* active while both modal popovers are shown, afterwards the grab is held
\* by the popover that was opened last and not by the other one.
C24_GrabOnlyTopmost ==
  /\ [](~(widget.has_grab /\ toplevel.peer.widget.has_grab))
  /\ [][(/\ WindowActiveChanged
         /\ ~toplevel.is_active
         /\ priv.modal /\ widget.mapped
         /\ toplevel.peer.priv.modal /\ toplevel.peer.widget.mapped)
        => /\ toplevel'.peer.widget.has_grab
           /\ ~widget'.has_grab]_vars

\* C34: a frame tick dispatched while the state is SHOWN leaves the state
\* SHOWN and the widget visible.
C34_TickKeepsShown ==
  [][(priv.state = STATE_SHOWN /\ obs'.last_op = "tick")
       => (priv'.state = STATE_SHOWN /\ widget'.visible)]_vars

\* C35: while the state is HIDDEN the popover has no grab, no observer of
\* the popover is connected to the window and the saved focus widget is
\* null.
C35_HiddenReleasedModality ==
  priv.state = STATE_HIDDEN
    => /\ ~widget.has_grab
       /\ toplevel.observers = 0
       /\ priv.prev_focus_widget = NULL

\* C36: between requests the visible flag of the popover is set exactly
\* when the state is SHOWING or SHOWN.
C36_VisibleFlagAgrees ==
  priv.visible <=> priv.state \in {STATE_SHOWING, STATE_SHOWN}

\* C37: every step that enters SHOWING or HIDING restarts the progress
\* tracker at 0 and clears the first-frame flag, so that the animation
\* runs from its start.
C37_EntryRestartsTracker ==
  [][(/\ priv'.state \in {STATE_SHOWING, STATE_HIDING}
      /\ priv'.state # priv.state)
       => /\ priv'.tracker.iteration = 0
          /\ ~priv'.first_frame_skipped]_vars

\* C40: between requests and after every return of the tick callback,
\* tick_id is non-zero exactly when a tick callback of the popover is
\* registered.
C40_TickIdIffRegistered ==
  (priv.tick_id # 0) <=> (clock.tick_callbacks # {})

\* C39: with everything else as it is, gtk_popover_update_position
\* resolves the same side for every animation offset from -20 to 20.
C39_SideIgnoresOffset ==
  \E side \in {gtk_popover_update_position(World).priv.final_position} :
    \A d \in (0 - TRANSITION_DIFF) .. TRANSITION_DIFF :
      gtk_popover_update_position(
        [World EXCEPT !.priv.transition_diff = d]).priv.final_position = side

\* the preferred side overshoots by less than the largest offset and the
\* popover was flipped to the opposite side; the offset moves the rectangle
\* handed to the window
C39_Witness ==
  /\ obs.positioned
  /\ ~env.wayland
  /\ priv.preferred_position = GTK_POS_TOP
  /\ priv.final_position = GTK_POS_BOTTOM
  /\ Overshoot(World)[GTK_POS_TOP] \in 1 .. TRANSITION_DIFF
  /\ OffsetRect([World EXCEPT !.priv.transition_diff = TRANSITION_DIFF],
                priv.final_position).y
       = PointingRect(World).y - TRANSITION_DIFF

\* the length of the popover's edge that carries the arrow, and the
\* coordinates of the arrow along it
GapEdge ==
  LET c == gtk_popover_get_gap_coords(World)
      alloc == popover_get_rect(World)
  IN  IF POS_IS_VERTICAL(get_effective_position(World, priv.final_position))
      THEN [size |-> alloc.width, start |-> c.initial_x, tip |-> c.tip_x,
            end |-> c.final_x]
      ELSE [size |-> alloc.height, start |-> c.initial_y, tip |-> c.tip_y,
            end |-> c.final_y]

\* C32: on an edge of at least 2 x border_radius + TAIL_GAP_WIDTH the gap
\* starts in [border_radius, size - TAIL_GAP_WIDTH - border_radius], ends
\* in [border_radius + TAIL_GAP_WIDTH, size - border_radius], is
\* TAIL_GAP_WIDTH wide, and the tip lies in [0, size].
C32_GapWithinEdge ==
  GapEdge.size >= 2 * env.style.border_radius + TAIL_GAP_WIDTH
    => /\ GapEdge.start >= env.style.border_radius
       /\ GapEdge.start
            <= GapEdge.size - TAIL_GAP_WIDTH - env.style.border_radius
       /\ GapEdge.end >= env.style.border_radius + TAIL_GAP_WIDTH
       /\ GapEdge.end <= GapEdge.size - env.style.border_radius
       /\ GapEdge.end - GapEdge.start = TAIL_GAP_WIDTH
       /\ GapEdge.tip >= 0
       /\ GapEdge.tip <= GapEdge.size

\* a shown popover above a rectangle at the far edge of the window: the
\* gap is pushed against the far corner
C32_Witness ==
  /\ obs.positioned
  /\ widget.mapped
  /\ priv.has_pointing_to
  /\ priv.pointing_to.x = GapWindowSize - 2
  /\ priv.final_position = GTK_POS_TOP
  /\ GapEdge.size = GapMinSize + MaxSlack
  /\ GapEdge.start = GapEdge.size - TAIL_GAP_WIDTH - env.style.border_radius
  /\ GapEdge.start > env.style.border_radius

\* C33: once the side is resolved, a popover without a child measures, in
\* each orientation and without the height of the arrow, 2 x border_radius,
\* plus TAIL_GAP_WIDTH in the orientation of the edge that carries the
\* arrow of the resolved side.
C33_MinimalSizeFollowsResolvedSide ==
  obs.positioned =>
    \A orientation \in {GTK_ORIENTATION_HORIZONTAL, GTK_ORIENTATION_VERTICAL} :
      \E size \in {gtk_popover_measure(World, orientation, <<>>)} :
        /\ size.minimum = size.natural
        /\ size.minimum - TAIL_HEIGHT
             = 2 * env.style.border_radius
               + (IF (orientation = GTK_ORIENTATION_HORIZONTAL)
                       = POS_IS_VERTICAL(priv.final_position)
                  THEN TAIL_GAP_WIDTH
                  ELSE 0)

\* the recomputation made by one step left the rendered side equal to the
\* resolved side; recomputed tells when the shape is recomputed in it
C31_Recomputed(recomputed) ==
  IF priv.window
  THEN /\ priv'.current_position = priv'.final_position
       /\ obs'.shape_updated <=> recomputed
  ELSE /\ priv'.final_position = priv.final_position
       /\ priv'.current_position = priv.current_position
       /\ ~obs'.shape_updated

\* every step that is one call of gtk_popover_update_position, made by a
\* setter of the side or of the rectangle or by the anchor's size-allocate
\* handler
C31_EveryRecompute(recomputed) ==
  /\ \A position \in Sides :
       SetPosition(position) => C31_Recomputed(recomputed)
  /\ \A r \in RectSet :
       SetPointingTo(<<r>>) => C31_Recomputed(recomputed)
  /\ ParentSizeAllocate => C31_Recomputed(recomputed)

\* C31 (as amended): after every gtk_popover_update_position on a popover
\* that has a containing window the rendered side equals the resolved side,
\* and the shape is recomputed during the call exactly when the newly
\* resolved side differs from the rendered side before the call, the
\* popover is drawable and the display is not a Wayland display; without a
\* containing window the call leaves both sides unchanged.
C31_RenderedFollowsResolved ==
  [][C31_EveryRecompute(/\ priv'.final_position # priv.current_position
                        /\ gtk_widget_is_drawable(World)
                        /\ ~env.wayland)]_vars

\* the shape was recomputed by a call that set a rectangle on a drawable
\* popover inside a window
C31_Witness ==
  /\ obs.last_op = "set_pointing_to"
  /\ obs.shape_updated
  /\ priv.window
  /\ gtk_widget_is_drawable(World)
  /\ priv.current_position = priv.final_position

\* C31 (as stated): the shape is recomputed exactly when the newly resolved
\* side differs from the rendered side before the call and the popover is
\* drawable.
C31_AsStated ==
  [][C31_EveryRecompute(/\ priv'.final_position # priv.current_position
                        /\ gtk_widget_is_drawable(World))]_vars
\* C38: the anchor's "grab-notify" handler is blocked exactly while
\* grab_notify_blocked is set, its block count is never greater than 1,
\* and while the popover is modal, shown and its window is active the
\* handler is not blocked.
C38_BlockFollowsFlag ==
  /\ (obs.block_count > 0) <=> priv.grab_notify_blocked
  /\ obs.block_count <= 1
  /\ (priv.modal /\ priv.visible /\ gtk_widget_is_drawable(World)
        /\ toplevel.is_active)
       => obs.block_count = 0
====
